---- MODULE Spec2Model ----
(***************************************************************************)
(* Bac-Motion-Visualization: the export engine (VideoExporter driven by    *)
(* ExportController), the trajectory calculator and the object visibility  *)
(* manager, as state machines translated from the Python sources.          *)
(***************************************************************************)
EXTENDS Integers, Sequences, FiniteSets, TLC

\* ------------------------------------------------------------------ bounds
\* Largest frame count of an export run in the concurrent model.
MaxFrames == 5
\* Largest frame count of an export run in the sequential progress model.
MaxProgressFrames == 50
\* Frame count of the sequence in the model of preview beside export.
PreviewFrames == 2
\* Largest object ID and largest frame index asked of the ObjectManager, the
\* distance between the frames at which objects are hidden, and the longest
\* list given to from_list.
MaxObjId == 2
MaxFrameNo == 11
ThresholdStep == 5
MaxListLen == 2
\* The mask sequence given to the TrajectoryCalculator: its largest length,
\* the width of a mask row and the largest label in it.
MaxMaskFrames == 3
MaskWidth == 2
MaxLabel == 2
\* External trajectories: largest original ID, largest frame of a point, most
\* points of all objects together, largest x coordinate in half pixels, and
\* the largest fps and um/pixel.
MaxExtId == 2
MaxExtFrame == 1
MaxTotalPoints == 2
MaxHalfX == 3
MaxFps == 1
MaxUm == 1
\* ThreadPoolExecutor(max_workers=4), video_exporter.py line 123.
MaxWorkers == 4

VARIABLES
    \* ---- VideoExporter fields (video_exporter.py 45-57)
    renderer_set,      \* self._renderer is not None
    frame_count,       \* self._frame_count
    export_video,      \* self._export_video and self._video_path
    video_format,      \* self._video_format
    export_images,     \* self._export_images and self._image_dir
    cancelled,         \* self._cancelled
    \* ---- the export thread: position in run() and its locals
    pc,                \* position of the export thread
    frame_idx,         \* loop variable of "for frame_idx in range(...)"
    video_writer,      \* "none" | "open" | "closed"
    executor,          \* "none" | "open" | "shutdown"
    await_idx,         \* position in "for future in pending_saves"
    raised,            \* an exception reached the except clause of run()
    \* ---- the image worker pool and the file system
    task,              \* frame index -> state of its submitted image write
    files,             \* numbers of the image files that exist
    \* ---- what the run did, in order
    events,            \* signals emitted by the exporter
    rendered,          \* calls of render_frame made by the export thread
    encoded,           \* frame indices handed to the video encoder
    \* ---- the controlling (GUI) thread
    dialog_cancelled,  \* ProgressDialog._cancelled
    pending_progress,  \* progress_updated signals queued for the GUI thread
    \* ---- the preview path (PreviewController, GUI thread) and shared caches
    preview_mode,      \* PreviewController._preview_mode
    is_playing,        \* PreviewController._is_playing
    current_frame,     \* PreviewController._current_frame
    frame_ok,          \* frame indices whose image file loads
    pil_available,     \* FrameRenderer._pil_available
    velocity_mode,     \* colorbar.enabled, trajectory.enabled, color_mode 'velocity'
    font_cache,        \* FrameRenderer._font_cache holds the label fonts
    colormap_cache,    \* ColorMapper._colormap_cache holds the colorbar LUT
    label_dragged,     \* FrameRenderer._label_positions has an entry
    w_read, w_write,   \* shared objects the export thread read / wrote
    p_read, p_write,   \* shared objects the GUI thread read / wrote in a run
    \* ---- ObjectManager (object_manager.py 65)
    hidden_records,    \* self._hidden_records
    last_op,           \* the last call made on the ObjectManager
    \* ---- DataManager masks and TrajectoryCalculator (24-29)
    masks,             \* the mask files: per frame a row of labels or NoMask
    trajectories,      \* self._trajectories
    is_calculated,     \* self._is_calculated
    last_fps,          \* self._last_fps
    last_um_per_pixel, \* self._last_um_per_pixel
    import_result,     \* what the last call of the calculator returned
    ext_ids,           \* original IDs with points in the last external data
    ext_dups,          \* those of them with two points at one frame
    requested,         \* <<fps, scale>> passed to the last calculator call
    intact,            \* no import has failed since the trajectories were set
    \* ---- colorbar: FrameRenderer.config and DraggableColorbar
    colorbar,          \* config.colorbar, color_mode and the colorbar position
    font_metrics,      \* what QFontMetrics reports for the title and tick fonts
    colorbar_item,     \* the fields of the DraggableColorbar (378-407)
    image,             \* the raster given to _extend_for_colorbar
    colorbar_bounds,   \* what _calculate_colorbar_bounds returned last
    extended,          \* what _extend_for_colorbar returned last
    \* ---- the configuration and the renderer that draws with it
    config,            \* MainController._config
    renderer_config,   \* PreviewController._config, which is FrameRenderer.config
    shared,            \* the two are one object: a change of one is seen in both
    panel,             \* the values of the ParameterPanel's widgets
    label_positions,   \* FrameRenderer._label_positions
    config_file,       \* the JSON text of the configuration file
    original,          \* the original frames: per frame a pixel row or none
    frame_out,         \* the last frame rendered, where its content is followed
    text_widths,       \* the measured widths of the scale caption and the title
    caption_x          \* per mode and item where its caption was drawn last

exportVars == <<renderer_set, frame_count, export_video, video_format,
                export_images, cancelled, pc, frame_idx, video_writer,
                executor, await_idx, raised, task, files, events, rendered,
                encoded, dialog_cancelled, pending_progress>>

previewVars == <<preview_mode, is_playing, current_frame>>

sharedVars == <<frame_ok, pil_available, velocity_mode, font_cache, colormap_cache,
                label_dragged, w_read, w_write, p_read, p_write>>

objVars == <<hidden_records, last_op>>

\* The state of the components an export or preview step leaves alone.
calcVars == <<masks, trajectories, is_calculated, last_fps,
              last_um_per_pixel, import_result, ext_ids, ext_dups,
              requested, intact>>

barVars == <<colorbar, font_metrics, colorbar_item, image, colorbar_bounds,
             extended>>

renderVars == <<config, renderer_config, shared, panel, label_positions,
                config_file, original, frame_out, text_widths, caption_x>>

restVars == <<objVars, calcVars, barVars, renderVars>>

vars == <<exportVars, previewVars, sharedVars, objVars, calcVars, barVars,
          renderVars>>

\* ------------------------------------------------------------ export model
VideoFormats == {"mp4", "avi", "gif", "webm"}

FrameIdxs == 0..(frame_count - 1)

\* A signal of the exporter: progress_updated(a, b), frame_exported(a),
\* export_finished(a = 1 for success, b = kind of message).
Signal(s, a, b) == [sig |-> s, a |-> a, b |-> b]

\* int((frame_idx + 1) / self._frame_count * 100) in IEEE double arithmetic.
\* The quotient d/n is rounded to a double and the product with 100 is rounded
\* again; when 100*d/n is not an integer the error is far smaller than the
\* distance to the next integer, and int() truncates to floor(100*d/n).  When
\* 100*d/n is an integer k, d/n is the double nearest k/100, and the rounded
\* product lies below k exactly for the k listed here (0.29*100, 0.57*100 and
\* 0.58*100 evaluate to 28.999..., 56.999... and 57.999...).
RoundsBelow == {29, 57, 58}

Percent(d, n) ==
    LET k == (100 * d) \div n
    IN IF (100 * d) % n = 0 /\ k \in RoundsBelow THEN k - 1 ELSE k

\* remaining_str of run(): the placeholder on the first frame, a formatted
\* time (whose text depends on the clock) afterwards.
RemainingStr(idx) == IF idx > 0 THEN "time" ELSE "Calculating..."

\* A loop that advances by two: every second frame is skipped.
NextIndexSkip(i) == i + 2

\* The next value of the loop variable of range(self._frame_count).
NextIndex(i) == i + 1

Finished == {i \in DOMAIN events : events[i].sig = "finished"}

Result == IF Finished = {} THEN "none" ELSE events[Len(events)].b

Running == {i \in DOMAIN task : task[i] = "running"}

Queued == {i \in DOMAIN task : task[i] = "queued"}

Submitted == {i \in DOMAIN task : task[i] # "none"}

\* A result() that does not block: the loop moves on while the write runs.
FutureDoneNoWait(i) == TRUE

\* future.result() returns (or raises) only once the write has ended.
FutureDone(i) == task[i] \in {"done", "raised"}

\* ------------------------------------------- render_frame and shared state
\* The configuration modelled has the text labels enabled (the defaults of
\* TimeLabelConfig, ScaleBarConfig and SpeedLabelConfig); velocity_mode says
\* whether the colorbar is drawn.  render_frame fetches the frame through the
\* DataManager's LRU cache, returns the placeholder when the frame does not
\* load, and otherwise draws the labels with fonts from _font_cache (PIL
\* fonts only) and the colorbar from the colormap LUT cache.
RenderReads(idx, draw_labels) ==
    {"frame_cache"} \cup
    (IF idx \in frame_ok
     THEN {"config", "renderer"} \cup
          (IF draw_labels /\ pil_available THEN {"font_cache"} ELSE {}) \cup
          (IF draw_labels /\ velocity_mode THEN {"colormap_cache"} ELSE {})
     ELSE {})

RenderWrites(idx, draw_labels) ==
    {"frame_cache"} \cup
    (IF idx \in frame_ok /\ draw_labels
     THEN (IF pil_available /\ ~font_cache THEN {"font_cache"} ELSE {}) \cup
          (IF velocity_mode /\ ~colormap_cache THEN {"colormap_cache"} ELSE {})
     ELSE {})

FontAfter(idx, draw_labels) ==
    font_cache \/ (idx \in frame_ok /\ draw_labels /\ pil_available)

ColormapAfter(idx, draw_labels) ==
    colormap_cache \/ (idx \in frame_ok /\ draw_labels /\ velocity_mode)

\* self._renderer.render_frame(idx, draw_labels=True,
\* include_colorbar_area=True) on the export thread.
WorkerRender(idx) ==
    /\ rendered' = Append(rendered, [idx |-> idx, draw_labels |-> TRUE,
                                     include_colorbar_area |-> TRUE])
    /\ w_read' = w_read \cup RenderReads(idx, TRUE)
    /\ w_write' = w_write \cup RenderWrites(idx, TRUE)
    /\ font_cache' = FontAfter(idx, TRUE)
    /\ colormap_cache' = ColormapAfter(idx, TRUE)
    /\ UNCHANGED <<frame_ok, pil_available, velocity_mode, label_dragged,
                   p_read, p_write>>

cfgVars == <<renderer_set, frame_count, export_video, video_format,
             export_images>>

guiVars == <<dialog_cancelled, pending_progress>>

\* The export thread is between the start of run() and export_finished.
InFlight == pc \notin {"idle", "queued", "done"}

\* The modal ProgressDialog is shown (export_controller.py 118, 148).
Modal == pc # "idle"

\* ------------------------------------------------------ VideoExporter.run
\* ExportController._start_export_process: the exporter is configured, the
\* modal dialog shown and the thread started.
Start ==
    /\ pc = "idle"
    /\ pc' = "queued"
    /\ UNCHANGED <<cfgVars, cancelled, frame_idx, video_writer, executor,
                   await_idx, raised, task, files, events, rendered, encoded,
                   guiVars, previewVars, sharedVars>>
    /\ UNCHANGED restVars

\* run(), lines 100-108.
RunBegin ==
    /\ pc = "queued"
    /\ cancelled' = FALSE
    /\ IF ~renderer_set \/ frame_count <= 0
       THEN /\ events' = Append(events, Signal("finished", 0, "failed"))
            /\ pc' = "done"
       ELSE /\ pc' = "create_writer"
            /\ UNCHANGED events
    /\ UNCHANGED <<cfgVars, frame_idx, video_writer, executor, await_idx,
                   raised, task, files, rendered, encoded, guiVars,
                   previewVars, sharedVars>>
    /\ UNCHANGED restVars

\* run(), lines 113-124, with _create_video_writer (189-217): the first frame
\* is rendered for its size, the writer is made for the format, then the
\* worker pool is created.
CreateWriter ==
    /\ pc = "create_writer"
    /\ IF export_video
       THEN /\ WorkerRender(0)
            /\ IF video_format \in {"mp4", "avi", "gif"}
               THEN /\ video_writer' = "open"
                    /\ executor' = "open"
                    /\ pc' = "loop"
                    /\ UNCHANGED events
               ELSE /\ events' = Append(events,
                                        Signal("finished", 0, "failed"))
                    /\ pc' = "done"
                    /\ UNCHANGED <<video_writer, executor>>
       ELSE /\ executor' = "open"
            /\ pc' = "loop"
            /\ UNCHANGED <<video_writer, events, rendered, sharedVars>>
    /\ UNCHANGED <<cfgVars, cancelled, frame_idx, await_idx, raised, task,
                   files, encoded, guiVars, previewVars>>
    /\ UNCHANGED restVars

\* An exception inside the try block of run() transfers to the except clause.
Raise ==
    /\ raised' = TRUE
    /\ pc' = "except"

\* render_frame or the writer's constructor raises in _create_video_writer.
CreateWriterRaises ==
    /\ pc = "create_writer"
    /\ export_video
    /\ Raise
    /\ UNCHANGED <<cfgVars, cancelled, frame_idx, video_writer, executor,
                   await_idx, task, files, events, rendered, encoded, guiVars,
                   previewVars, sharedVars>>
    /\ UNCHANGED restVars

\* Lines 126-128: the loop head and the cancellation check.
LoopCheck ==
    /\ pc = "loop"
    /\ pc' = IF frame_idx >= frame_count \/ cancelled THEN "await"
             ELSE "render"
    /\ UNCHANGED <<cfgVars, cancelled, frame_idx, video_writer, executor,
                   await_idx, raised, task, files, events, rendered, encoded,
                   guiVars, previewVars, sharedVars>>
    /\ UNCHANGED restVars

\* Lines 131-135.
Render ==
    /\ pc = "render"
    /\ \E ok \in BOOLEAN :
         IF ok
         THEN /\ WorkerRender(frame_idx)
              /\ pc' = "encode"
              /\ UNCHANGED raised
         ELSE /\ Raise
              /\ UNCHANGED <<rendered, sharedVars>>
    /\ UNCHANGED <<cfgVars, cancelled, frame_idx, video_writer, executor,
                   await_idx, task, files, events, encoded, guiVars,
                   previewVars>>
    /\ UNCHANGED restVars

\* Lines 137-142: the synchronous write to the video encoder.
Encode ==
    /\ pc = "encode"
    /\ \E ok \in BOOLEAN :
         IF video_writer = "none"
         THEN /\ pc' = "submit"
              /\ UNCHANGED <<encoded, raised>>
         ELSE IF ok
              THEN /\ encoded' = Append(encoded, frame_idx)
                   /\ pc' = "submit"
                   /\ UNCHANGED raised
              ELSE /\ Raise
                   /\ UNCHANGED encoded
    /\ UNCHANGED <<cfgVars, cancelled, frame_idx, video_writer, executor,
                   await_idx, task, files, events, rendered, guiVars,
                   previewVars, sharedVars>>
    /\ UNCHANGED restVars

\* Lines 144-149: the image write of this frame is submitted to the pool.
Submit ==
    /\ pc = "submit"
    /\ task' = IF export_images THEN [task EXCEPT ![frame_idx] = "queued"]
               ELSE task
    /\ pc' = "progress"
    /\ UNCHANGED <<cfgVars, cancelled, frame_idx, video_writer, executor,
                   await_idx, raised, files, events, rendered, encoded,
                   guiVars, previewVars, sharedVars>>
    /\ UNCHANGED restVars

\* Lines 151-163: both signals are emitted and the loop variable advances.
\* progress_updated is delivered to the GUI thread through its event queue.
Progress ==
    /\ pc = "progress"
    /\ events' = events \o
         << Signal("progress", Percent(frame_idx + 1, frame_count),
                   RemainingStr(frame_idx)),
            Signal("frame", frame_idx + 1, "") >>
    /\ pending_progress' = pending_progress + 1
    /\ frame_idx' = NextIndex(frame_idx)
    /\ pc' = "loop"
    /\ UNCHANGED <<cfgVars, cancelled, video_writer, executor, await_idx,
                   raised, task, files, rendered, encoded, dialog_cancelled,
                   previewVars, sharedVars>>
    /\ UNCHANGED restVars

\* Lines 165-166: "for future in pending_saves: future.result()".  The
\* futures are those of the frames submitted, in order; result() re-raises
\* the exception of a failed write.
Await ==
    /\ pc = "await"
    /\ IF await_idx >= Cardinality(Submitted)
       THEN /\ pc' = "shutdown"
            /\ UNCHANGED <<await_idx, raised>>
       ELSE /\ FutureDone(await_idx)
            /\ IF task[await_idx] = "raised"
               THEN /\ Raise
                    /\ UNCHANGED await_idx
               ELSE /\ await_idx' = await_idx + 1
                    /\ UNCHANGED <<pc, raised>>
    /\ UNCHANGED <<cfgVars, cancelled, frame_idx, video_writer, executor,
                   task, files, events, rendered, encoded, guiVars,
                   previewVars, sharedVars>>
    /\ UNCHANGED restVars

\* Line 168: image_save_executor.shutdown(wait=True).
Shutdown ==
    /\ pc = "shutdown"
    /\ Running = {} /\ Queued = {}
    /\ executor' = "shutdown"
    /\ pc' = "close"
    /\ UNCHANGED <<cfgVars, cancelled, frame_idx, video_writer, await_idx,
                   raised, task, files, events, rendered, encoded, guiVars,
                   previewVars, sharedVars>>
    /\ UNCHANGED restVars

\* Lines 170-174: the writer is closed (gif) or released (mp4, avi).
CloseWriter ==
    /\ pc = "close"
    /\ \E ok \in BOOLEAN :
         IF video_writer = "none"
         THEN /\ pc' = "report"
              /\ UNCHANGED <<video_writer, raised>>
         ELSE IF ok
              THEN /\ video_writer' = "closed"
                   /\ pc' = "report"
                   /\ UNCHANGED raised
              ELSE /\ Raise
                   /\ UNCHANGED video_writer
    /\ UNCHANGED <<cfgVars, cancelled, frame_idx, executor, await_idx, task,
                   files, events, rendered, encoded, guiVars, previewVars,
                   sharedVars>>
    /\ UNCHANGED restVars

\* Lines 176-182.
Report ==
    /\ pc = "report"
    /\ events' = Append(events,
                        IF cancelled THEN Signal("finished", 0, "cancelled")
                        ELSE Signal("finished", 1, "completed"))
    /\ pc' = "done"
    /\ UNCHANGED <<cfgVars, cancelled, frame_idx, video_writer, executor,
                   await_idx, raised, task, files, rendered, encoded, guiVars,
                   previewVars, sharedVars>>
    /\ UNCHANGED restVars

\* An except clause that lets the exception leave run() without a report.
HandleExceptionSilent ==
    /\ pc = "except"
    /\ pc' = "done"
    /\ UNCHANGED <<cfgVars, cancelled, frame_idx, video_writer, executor,
                   await_idx, raised, task, files, events, rendered, encoded,
                   guiVars, previewVars, sharedVars>>
    /\ UNCHANGED restVars

\* Lines 184-187: the except clause reports the failure.
HandleException ==
    /\ pc = "except"
    /\ events' = Append(events, Signal("finished", 0, "failed"))
    /\ pc' = "done"
    /\ UNCHANGED <<cfgVars, cancelled, frame_idx, video_writer, executor,
                   await_idx, raised, task, files, rendered, encoded, guiVars,
                   previewVars, sharedVars>>
    /\ UNCHANGED restVars

\* ------------------------------------------------- the image worker pool
\* A pool thread takes the oldest queued write; at most MaxWorkers run.
WorkerStart(i) ==
    /\ task[i] = "queued"
    /\ \A j \in Queued : i <= j
    /\ Cardinality(Running) < MaxWorkers
    /\ task' = [task EXCEPT ![i] = "running"]
    /\ UNCHANGED <<cfgVars, cancelled, pc, frame_idx, video_writer, executor,
                   await_idx, raised, files, events, rendered, encoded,
                   guiVars, previewVars, sharedVars>>
    /\ UNCHANGED restVars

\* _save_frame_image (219-223): cv2.imwrite writes file number i + 1, or the
\* write raises and the exception is kept in the future.
WorkerFinish(i) ==
    /\ task[i] = "running"
    /\ \E ok \in BOOLEAN :
         IF ok
         THEN /\ task' = [task EXCEPT ![i] = "done"]
              /\ files' = files \cup {i + 1}
         ELSE /\ task' = [task EXCEPT ![i] = "raised"]
              /\ UNCHANGED files
    /\ UNCHANGED <<cfgVars, cancelled, pc, frame_idx, video_writer, executor,
                   await_idx, raised, events, rendered, encoded, guiVars,
                   previewVars, sharedVars>>
    /\ UNCHANGED restVars

\* --------------------------------------------------- the controlling thread
\* VideoExporter.cancel() (93-96), reached through
\* ExportController.cancel_export (182-186).
CancelExport ==
    /\ pc # "idle"
    /\ ~cancelled
    /\ cancelled' = TRUE
    /\ UNCHANGED <<cfgVars, pc, frame_idx, video_writer, executor, await_idx,
                   raised, task, files, events, rendered, encoded, guiVars,
                   previewVars, sharedVars>>
    /\ UNCHANGED restVars

\* ProgressDialog._on_cancel (progress_dialog.py 113-118).
ClickCancel ==
    /\ Modal
    /\ ~dialog_cancelled
    /\ Finished = {}
    /\ dialog_cancelled' = TRUE
    /\ UNCHANGED <<cfgVars, cancelled, pc, frame_idx, video_writer, executor,
                   await_idx, raised, task, files, events, rendered, encoded,
                   pending_progress, previewVars, sharedVars>>
    /\ UNCHANGED restVars

\* ExportController._on_progress_updated (155-161), run by the GUI thread for
\* one queued progress_updated signal.
OnProgressUpdated ==
    /\ pending_progress > 0
    /\ pending_progress' = pending_progress - 1
    /\ cancelled' = (cancelled \/ dialog_cancelled)
    /\ UNCHANGED <<cfgVars, pc, frame_idx, video_writer, executor, await_idx,
                   raised, task, files, events, rendered, encoded,
                   dialog_cancelled, previewVars, sharedVars>>
    /\ UNCHANGED restVars

\* ----------------------------------------------------------- ObjectManager
ObjIds == 1..MaxObjId

FrameNos == 0..MaxFrameNo

\* HiddenRecord (object_manager.py 17-22).
HiddenRecord(o, m, f) == [obj_id |-> o, mode |-> m, frame |-> f]

\* The frames at which objects are hidden: every ThresholdStep-th one.
Thresholds == {f \in FrameNos : f > 0 /\ f % ThresholdStep = 0}

HiddenRecords ==
    {HiddenRecord(o, m, f) : o \in ObjIds, m \in {"before", "after"},
                             f \in Thresholds}

\* A record hides strictly before (strictly after) its frame only.
HidesStrict(r, frame) ==
    \/ r.mode = "before" /\ frame < r.frame
    \/ r.mode = "after" /\ frame > r.frame

\* The test of is_visible on one record (139-142).
Hides(r, frame) ==
    \/ r.mode = "before" /\ frame <= r.frame
    \/ r.mode = "after" /\ frame >= r.frame

\* is_visible (126-144): the records are scanned in order and the first one
\* of the object that hides the frame answers False.
RECURSIVE VisibleFrom(_, _, _, _)
VisibleFrom(recs, k, obj_id, frame) ==
    IF k > Len(recs) THEN TRUE
    ELSE IF recs[k].obj_id = obj_id /\ Hides(recs[k], frame) THEN FALSE
    ELSE VisibleFrom(recs, k + 1, obj_id, frame)

is_visible(obj_id, frame) == VisibleFrom(hidden_records, 1, obj_id, frame)

\* _remove_existing_record (99-103).
RemoveExisting(recs, obj_id) ==
    SelectSeq(recs, LAMBDA r : r.obj_id # obj_id)

Op(name, o, f) == [op |-> name, obj |-> o, frame |-> f]

\* hide_object_before (67-81).
hide_object_before(obj_id, frame) ==
    /\ hidden_records' = Append(RemoveExisting(hidden_records, obj_id),
                                HiddenRecord(obj_id, "before", frame))
    /\ last_op' = Op("hide_before", obj_id, frame)
    /\ UNCHANGED <<exportVars, previewVars, sharedVars, calcVars,
                   barVars, renderVars>>

\* hide_object_after (83-97).
hide_object_after(obj_id, frame) ==
    /\ hidden_records' = Append(RemoveExisting(hidden_records, obj_id),
                                HiddenRecord(obj_id, "after", frame))
    /\ last_op' = Op("hide_after", obj_id, frame)
    /\ UNCHANGED <<exportVars, previewVars, sharedVars, calcVars,
                   barVars, renderVars>>

\* restore_object (105-117).
restore_object(obj_id) ==
    /\ hidden_records' = RemoveExisting(hidden_records, obj_id)
    /\ last_op' = Op("restore", obj_id, 0)
    /\ UNCHANGED <<exportVars, previewVars, sharedVars, calcVars,
                   barVars, renderVars>>

\* restore_all (119-124).
restore_all ==
    /\ hidden_records' = << >>
    /\ last_op' = Op("restore_all", 0, 0)
    /\ UNCHANGED <<exportVars, previewVars, sharedVars, calcVars,
                   barVars, renderVars>>

\* Lists of at most n records; an object may occur more than once.
RECURSIVE RecordLists(_)
RecordLists(n) ==
    IF n = 0 THEN {<< >>}
    ELSE LET shorter == RecordLists(n - 1)
         IN shorter \cup {Append(l, r) : l \in shorter, r \in HiddenRecords}

\* from_list (187-192): the records are replaced by those of the list.
from_list(data) ==
    /\ hidden_records' = data
    /\ last_op' = Op("from_list", 0, 0)
    /\ UNCHANGED <<exportVars, previewVars, sharedVars, calcVars,
                   barVars, renderVars>>

InitObj ==
    /\ hidden_records = << >>
    /\ last_op = Op("none", 0, 0)

\* ---------------------------------------- DataManager, TrajectoryCalculator
\* Coordinates are kept in half pixels (x2 = 2 * x); masks are one row high,
\* so every y is 0 and a distance is the absolute difference of two x.
\* None in place of a mask: a row of no pixels.  None in place of a centroid.
NoMask == << >>

NoCentroid == -1

\* get_mask (data_manager.py 186-190, 204-214): None outside the sequence
\* and for a file that does not load.
get_mask(frame) ==
    IF frame < 0 \/ frame >= Len(masks) THEN NoMask ELSE masks[frame + 1]

\* is_loaded (data_manager.py 242-244).
is_loaded == Len(masks) > 0

Max(a, b) == IF a > b THEN a ELSE b

Abs(a) == IF a < 0 THEN -a ELSE a

RECURSIVE GCD(_, _)
GCD(a, b) == IF b = 0 THEN a ELSE GCD(b, a % b)

\* A non-negative quotient n / d, as a reduced fraction.
Ratio(n, d) ==
    LET g == GCD(n, d) IN [num |-> n \div g, den |-> d \div g]

\* _extract_object_ids (data_manager.py 127-145): the labels other than 0 of
\* the sampled masks that load.
SampleIndices ==
    LET n == Len(masks)
        step == Max(1, n \div 10)
    IN {i \in 0..(n - 1) : i % step = 0} \cup
       (IF n > 0 THEN {n - 1} ELSE {})

object_ids ==
    {l \in 1..MaxLabel :
        \E i \in SampleIndices :
            /\ get_mask(i) # NoMask
            /\ \E x \in DOMAIN get_mask(i) : get_mask(i)[x] = l}

RECURSIVE SumSet(_)
SumSet(S) ==
    IF S = {} THEN 0 ELSE LET x == CHOOSE x \in S : TRUE IN x + SumSet(S \ {x})

\* _calculate_frame_centroids (109-145): the mean x of the pixels of a label,
\* in half pixels, or None for a label absent from the mask.
Centroid(mask, obj_id) ==
    LET px == {x \in DOMAIN mask : mask[x] = obj_id}
    IN IF px = {} THEN NoCentroid
       ELSE (2 * SumSet({x - 1 : x \in px})) \div Cardinality(px)

EmptyDict == [i \in {} |-> 0]

\* The loop of calculate_all_trajectories (71-97) for one object, from frame
\* f on; prev is the centroid of the frame before, None if there is none or
\* the mask of that frame did not load (prev_centroids is left as it was).
RECURSIVE CalcObject(_, _, _, _, _, _)
CalcObject(obj_id, f, prev, fps, um, acc) ==
    IF f >= Len(masks) THEN acc
    ELSE IF get_mask(f) = NoMask
         THEN CalcObject(obj_id, f + 1, prev, fps, um, acc)
    ELSE LET c == Centroid(get_mask(f), obj_id)
             v == IF fps > 0 THEN Ratio(Abs(c - prev) * um * fps, 2)
                             ELSE Ratio(Abs(c - prev) * um, 2)
             acc2 ==
               IF c = NoCentroid THEN acc
               ELSE [centroids |-> Append(acc.centroids, <<f, c, 0>>),
                     velocities |->
                       IF prev # NoCentroid
                       THEN Append(acc.velocities, <<f, v>>)
                       ELSE acc.velocities]
         IN CalcObject(obj_id, f + 1, c, fps, um, acc2)

\* calculate_all_trajectories (31-107).
calculate_all_trajectories(original_fps, um_per_pixel) ==
    /\ IF ~is_loaded
       THEN /\ import_result' = "not_loaded"
            /\ UNCHANGED <<trajectories, is_calculated, last_fps,
                           last_um_per_pixel>>
       ELSE /\ trajectories' =
                 [o \in object_ids |->
                    CalcObject(o, 0, NoCentroid, original_fps, um_per_pixel,
                               [centroids |-> << >>, velocities |-> << >>])]
            /\ is_calculated' = TRUE
            /\ last_fps' = original_fps
            /\ last_um_per_pixel' = um_per_pixel
            /\ import_result' = "calculated"
    /\ requested' = <<original_fps, um_per_pixel>>
    /\ intact' = (is_loaded \/ intact)
    /\ UNCHANGED <<masks, ext_ids, ext_dups, exportVars, previewVars,
                   sharedVars, objVars,
                   barVars, renderVars>>

\* int(round(x)) (400-401): Python rounds a half to the even neighbour.
PyRound(x2) ==
    IF x2 % 2 = 0 THEN x2 \div 2
    ELSE LET k == (x2 - 1) \div 2 IN IF k % 2 = 0 THEN k ELSE k + 1

\* The validation of one point (393-414): "" if the point passes.
PointFailure(p) ==
    LET mask == get_mask(p[1])
        px == PyRound(p[2])
        py == PyRound(p[3])
    IN IF mask = NoMask THEN "no_mask"
       ELSE IF px < 0 \/ px >= Len(mask) \/ py < 0 \/ py >= 1
            THEN "out_of_bounds"
       ELSE IF mask[px + 1] = 0 THEN "background"
       ELSE ""

\* The first failure among the points of one object, in list order.
RECURSIVE FirstFailure(_, _)
FirstFailure(points, k) ==
    IF k > Len(points) THEN ""
    ELSE IF PointFailure(points[k]) # "" THEN PointFailure(points[k])
    ELSE FirstFailure(points, k + 1)

\* Two points of one object at the same frame: the input that
\* TrajectoryDataLoader.validate_data rejects (trajectory_data_loader.py
\* 375-384) before the calculator is called.
DuplicateFrames(points) ==
    \E i, j \in DOMAIN points : i < j /\ points[i][1] = points[j][1]

\* A list that is stored in the order given.
SortByFrameOmitted(points, k) == points

\* sorted(points, key=frame) (417): stable insertion by frame.
RECURSIVE InsertByFrame(_, _)
InsertByFrame(sorted, p) ==
    IF sorted = << >> THEN <<p>>
    ELSE IF sorted[Len(sorted)][1] <= p[1] THEN Append(sorted, p)
    ELSE Append(InsertByFrame(SubSeq(sorted, 1, Len(sorted) - 1), p),
                sorted[Len(sorted)])

RECURSIVE SortByFrame(_, _)
SortByFrame(points, k) ==
    IF k = 0 THEN << >>
    ELSE InsertByFrame(SortByFrame(points, k - 1), points[k])

\* A loop that starts one sample late: range(2, len(sorted_points)).
RECURSIVE VelocitiesSkipFirst(_, _, _, _)
VelocitiesSkipFirst(sp, i, fps, um) ==
    IF i + 1 > Len(sp) THEN << >>
    ELSE <<<<sp[i + 1][1], [num |-> 0, den |-> 1]>>>> \o
         VelocitiesSkipFirst(sp, i + 1, fps, um)

\* The velocities of sorted points (427-444), zero where no time elapsed.
RECURSIVE Velocities(_, _, _, _)
Velocities(sp, i, fps, um) ==
    IF i > Len(sp) THEN << >>
    ELSE LET dx == Abs(sp[i][2] - sp[i - 1][2]) * um
             df == sp[i][1] - sp[i - 1][1]
             v == IF df <= 0 THEN Ratio(0, 1)
                  ELSE IF fps > 0 THEN Ratio(dx * fps, 2 * df)
                  ELSE Ratio(dx, 2 * df)
         IN <<<<sp[i][1], v>>>> \o Velocities(sp, i + 1, fps, um)

MinOf(S) == CHOOSE m \in S : \A n \in S : m <= n

first_frame(points) == MinOf({points[k][1] : k \in DOMAIN points})

\* An order by original ID alone: the sort key without the first frame.
RECURSIVE ObjectOrderById(_, _)
ObjectOrderById(ext, ids) ==
    IF ids = {} THEN << >>
    ELSE LET o == CHOOSE o \in ids : \A q \in ids : o <= q
         IN <<o>> \o ObjectOrderById(ext, ids \ {o})

\* object_order (373-382): the objects with points, by first frame, then ID.
RECURSIVE ObjectOrder(_, _)
ObjectOrder(ext, ids) ==
    IF ids = {} THEN << >>
    ELSE LET o == CHOOSE o \in ids : \A q \in ids :
                     \/ first_frame(ext[o]) < first_frame(ext[q])
                     \/ /\ first_frame(ext[o]) = first_frame(ext[q])
                        /\ o <= q
         IN <<o>> \o ObjectOrder(ext, ids \ {o})

\* The loop over the objects (384-446): an object is stored as soon as its
\* own points pass, and the first failing point returns from the call.
RECURSIVE ImportLoop(_, _, _, _, _, _)
ImportLoop(ext, order, k, traj, fps, um) ==
    IF k > Len(order) THEN [traj |-> traj, failure |-> ""]
    ELSE LET points == ext[order[k]]
             sp == SortByFrame(points, Len(points))
             entry == [centroids |-> sp,
                       velocities |-> Velocities(sp, 2, fps, um),
                       original_id |-> order[k]]
         IN IF FirstFailure(points, 1) # ""
            THEN [traj |-> traj, failure |-> FirstFailure(points, 1)]
            ELSE ImportLoop(ext, order, k + 1, traj @@ (k :> entry), fps, um)

\* set_from_external_data (340-456).
set_from_external_data(ext, original_fps, um_per_pixel) ==
    LET order == ObjectOrder(ext, {o \in DOMAIN ext : ext[o] # << >>})
    IN \E out \in {ImportLoop(ext, order, 1, EmptyDict, original_fps,
                              um_per_pixel)} :
         /\ trajectories' = out.traj
         /\ ext_ids' = {o \in DOMAIN ext : ext[o] # << >>}
         /\ ext_dups' = {o \in DOMAIN ext : DuplicateFrames(ext[o])}
         /\ requested' = <<original_fps, um_per_pixel>>
         /\ intact' = (out.failure = "")
         /\ IF out.failure = ""
            THEN /\ is_calculated' = TRUE
                 /\ last_fps' = original_fps
                 /\ last_um_per_pixel' = um_per_pixel
                 /\ import_result' = "ok"
            ELSE /\ import_result' = out.failure
                 /\ UNCHANGED <<is_calculated, last_fps, last_um_per_pixel>>
         /\ UNCHANGED <<masks, exportVars, previewVars, sharedVars, objVars,
                   barVars, renderVars>>

\* get_new_object_ids (458-465): the keys in increasing order.
RECURSIVE SortedKeys(_)
SortedKeys(S) ==
    IF S = {} THEN << >>
    ELSE LET m == MinOf(S) IN <<m>> \o SortedKeys(S \ {m})

get_new_object_ids == SortedKeys(DOMAIN trajectories)

\* None in place of an object ID.
NoId == 0

\* get_original_id (467-479): the stored original ID, the ID itself for a
\* trajectory calculated from masks, None for an unknown ID.
get_original_id(new_id) ==
    IF new_id \notin DOMAIN trajectories THEN NoId
    ELSE IF "original_id" \in DOMAIN trajectories[new_id]
         THEN trajectories[new_id].original_id
    ELSE new_id

\* rescale_velocities refuses (289-295), dropping the check of the stored
\* parameters.
rescale_refused_uncalculated == ~is_calculated

\* rescale_velocities refuses (289-295): nothing was calculated, or a stored
\* parameter is not positive.
rescale_refused ==
    \/ ~is_calculated
    \/ last_fps <= 0
    \/ last_um_per_pixel <= 0

\* The scale factor with the ratio of the scales left out.
total_scale_fps_only(new_fps, new_um_per_pixel) ==
    [num |-> new_fps, den |-> last_fps]

\* total_scale (298-300): (new_um / last_um) * (new_fps / last_fps), as an
\* exact fraction.  The model's parameters are small integers, for which the
\* float product is within 1e-9 of 1 exactly when the fraction is 1.
total_scale(new_fps, new_um_per_pixel) ==
    [num |-> new_um_per_pixel * new_fps,
     den |-> last_um_per_pixel * last_fps]

\* velocity * total_scale (308-311) of one (frame, velocity) list.
ScaleVelocities(velocities, scale) ==
    [k \in DOMAIN velocities |->
       <<velocities[k][1],
         Ratio(velocities[k][2].num * scale.num,
               velocities[k][2].den * scale.den)>>]

\* rescale_velocities (268-318).  A factor of 1 returns True before the stored
\* parameters are updated (303-304).
rescale_velocities(new_fps, new_um_per_pixel) ==
    /\ requested' = <<new_fps, new_um_per_pixel>>
    /\ IF rescale_refused
       THEN /\ import_result' = "rescale_failed"
            /\ UNCHANGED <<trajectories, last_fps, last_um_per_pixel>>
       ELSE \E scale \in {total_scale(new_fps, new_um_per_pixel)} :
              IF scale.num = scale.den
              THEN /\ import_result' = "rescale_skipped"
                   /\ UNCHANGED <<trajectories, last_fps, last_um_per_pixel>>
              ELSE /\ trajectories' =
                        [o \in DOMAIN trajectories |->
                           [trajectories[o] EXCEPT
                              !.velocities = ScaleVelocities(@, scale)]]
                   /\ last_fps' = new_fps
                   /\ last_um_per_pixel' = new_um_per_pixel
                   /\ import_result' = "rescaled"
    /\ UNCHANGED <<masks, is_calculated, ext_ids, ext_dups, intact,
                   exportVars, previewVars, sharedVars, objVars,
                   barVars, renderVars>>

\* __init__ (24-29), with no data loaded.
InitCalc ==
    /\ masks = << >>
    /\ trajectories = EmptyDict
    /\ is_calculated = FALSE
    /\ last_fps = 0
    /\ last_um_per_pixel = 0
    /\ import_result = "none"
    /\ ext_ids = {}
    /\ ext_dups = {}
    /\ requested = <<0, 0>>
    /\ intact = TRUE

\* ---------------------------------------------------------------- colorbar
\* DraggableColorbar.__init__ (graphics_items.py 388-402).
DefaultBarWidth == 14
DefaultBarHeight == 200
DefaultTitleGap == 5
DefaultTickLength == 5

\* The extension background (frame_renderer.py 914) and the padding added
\* right of and below the colorbar (903-904).
White == 255
PadRight == 15
PadBottom == 10

\* int(v) of a quotient n / d, d > 0: towards zero.
Trunc(n, d) == IF n >= 0 THEN n \div d ELSE -((-n) \div d)

\* QFontMetrics.horizontalAdvance(title): nothing for the empty title.
TitleAdvance(title, fm) == IF title = "" THEN 0 ELSE fm.title_advance

\* QFontMetrics.height(), which Qt defines as ascent() + descent().
FontHeight(fm) == fm.ascent + fm.descent

\* _calculate_colorbar_bounds (frame_renderer.py 773-869).  The position is in
\* quarters of the image size, so that pos * size is exact.
calculate_colorbar_bounds(cfg, fm, image_width, image_height) ==
    LET x == Trunc(cfg.position[1] * image_width, 4)
        y == Trunc(cfg.position[2] * image_height, 4)
        bar_width == cfg.bar_width
        bar_height == cfg.bar_height
        bar_x_base == 5
        title_width_val == TitleAdvance(cfg.title, fm)
        title_center == bar_x_base + bar_width \div 2
        title_left == title_center - title_width_val \div 2
        left_padding == Max(0, -title_left)
        bar_x_offset == IF cfg.title_position = "top"
                        THEN bar_x_base + left_padding
                        ELSE bar_x_base
        max_tick_width == fm.max_tick_width
        font_height == FontHeight(fm)
        descent == font_height - fm.ascent
        rotated_width == font_height + 20
        title_height == IF cfg.title # "" /\ cfg.title_position = "top"
                        THEN fm.ascent + 2 + fm.descent + cfg.title_gap
                        ELSE 0
        title_width == IF cfg.title # "" /\ cfg.title_position # "top"
                       THEN cfg.title_gap + font_height - descent \div 2
                            + rotated_width \div 2
                       ELSE 0
        content_width == bar_x_offset + bar_width + cfg.tick_length + 3
                         + max_tick_width + 10
        title_width_total == TitleAdvance(cfg.title, fm) + bar_x_offset + 10
    IN IF cfg.title_position = "top"
       THEN <<x, y,
              IF cfg.title # ""
              THEN x + Max(content_width, title_width_total)
              ELSE x + content_width,
              y + title_height + bar_height + 10>>
       ELSE <<x, y,
              x + bar_x_offset + bar_width + cfg.tick_length + 3
                + max_tick_width + title_width + 10,
              y + 5 + bar_height + 10>>

\* DraggableColorbar._update_total_size (graphics_items.py 409-446): the
\* overlay with its total width and height recalculated.
update_total_size(ov, fm) ==
    LET max_tick_width == fm.max_tick_width
        title_width == TitleAdvance(ov.title, fm)
        bar_x == 5
        content_width == bar_x + ov.bar_width + ov.tick_length + 3
                         + max_tick_width + 10
        title_center == bar_x + ov.bar_width \div 2
        title_left == title_center - title_width \div 2
        title_right == title_center + title_width \div 2
        left_extend == Max(0, -title_left)
        title_needs_width == title_right + left_extend + 10
        title_height == TitleAdvance(ov.title, fm)
    IN IF ov.title_position = "top"
       THEN [ov EXCEPT
               !.total_width = Max(content_width, title_needs_width),
               !.total_height = FontHeight(fm) + ov.title_gap
                                + ov.bar_height + 10]
       ELSE [ov EXCEPT
               !.total_width = ov.bar_width + ov.tick_length + 3
                               + max_tick_width + ov.title_gap
                               + FontHeight(fm) + 20,
               !.total_height = Max(ov.bar_height, title_height) + 20]

\* The <<row, column>> pairs of a raster of w by h pixels; a raster is its
\* width w, its height h and the map px from these pairs to pixel values.
Pixels(w, h) == (0..(h - 1)) \X (0..(w - 1))

\* No raster.
NoRaster == [w |-> 0, h |-> 0, px |-> << >>]

\* The extension with the padding left out.
ExtendByNoPadding(excess, padding) == Max(0, excess)

\* max(0, right - w + 15), max(0, bottom - h + 10) (903-904), given the
\* excess right - w or bottom - h and the padding.
ExtendBy(excess, padding) == Max(0, excess + padding)

\* _extend_for_colorbar (frame_renderer.py 871-921).
extend_for_colorbar(img) ==
    IF ~colorbar.enabled \/ colorbar.color_mode # "velocity" THEN img
    ELSE LET b == calculate_colorbar_bounds(colorbar, font_metrics,
                                            img.w, img.h)
             extend_right == ExtendBy(b[3] - img.w, PadRight)
             extend_bottom == ExtendBy(b[4] - img.h, PadBottom)
             new_w == img.w + extend_right
             new_h == img.h + extend_bottom
         IN IF extend_right = 0 /\ extend_bottom = 0 THEN img
            ELSE [w |-> new_w, h |-> new_h,
                  px |-> [p \in Pixels(new_w, new_h) |->
                            IF p[1] < img.h /\ p[2] < img.w THEN img.px[p]
                            ELSE White]]

ExtendForColorbar ==
    /\ extended' = extend_for_colorbar(image)
    /\ colorbar_bounds' =
          IF ~colorbar.enabled \/ colorbar.color_mode # "velocity"
          THEN colorbar_bounds
          ELSE calculate_colorbar_bounds(colorbar, font_metrics,
                                         image.w, image.h)
    /\ UNCHANGED <<colorbar, font_metrics, colorbar_item, image, exportVars,
                   previewVars, sharedVars, objVars, calcVars, renderVars>>

\* _calculate_colorbar_bounds called for the current image size.
CalculateColorbarBounds ==
    /\ colorbar_bounds' = calculate_colorbar_bounds(colorbar, font_metrics,
                                                    image.w, image.h)
    /\ UNCHANGED <<colorbar, font_metrics, colorbar_item, image, extended,
                   exportVars, previewVars, sharedVars, objVars, calcVars, renderVars>>

\* The setters of the DraggableColorbar (456-525), each ending in
\* _update_total_size.
SetOverlay(ov) ==
    /\ colorbar_item' = update_total_size(ov, font_metrics)
    /\ UNCHANGED <<colorbar, font_metrics, image, colorbar_bounds, extended,
                   exportVars, previewVars, sharedVars, objVars, calcVars, renderVars>>

set_bar_size(width, height) ==
    SetOverlay([colorbar_item EXCEPT !.bar_width = width, !.bar_height = height])

set_title(title) == SetOverlay([colorbar_item EXCEPT !.title = title])

set_title_position(position) ==
    SetOverlay([colorbar_item EXCEPT !.title_position = position])

set_title_gap(gap) == SetOverlay([colorbar_item EXCEPT !.title_gap = gap])

set_tick_style(length) == SetOverlay([colorbar_item EXCEPT !.tick_length = length])

\* DraggableColorbar.__init__ (378-407).
NewOverlay(fm) ==
    update_total_size([bar_width |-> DefaultBarWidth,
                       bar_height |-> DefaultBarHeight,
                       title |-> "v",
                       title_position |-> "top",
                       title_gap |-> DefaultTitleGap,
                       tick_length |-> DefaultTickLength,
                       total_width |-> 0,
                       total_height |-> 0], fm)

\* ColorbarConfig (config_model.py 109-132) with the colorbar moved to the
\* right edge of the frame, and the metrics of some font.
DefaultColorbar ==
    [enabled |-> TRUE, color_mode |-> "velocity", bar_width |-> DefaultBarWidth,
     bar_height |-> DefaultBarHeight, title |-> "v", title_position |-> "top",
     title_gap |-> DefaultTitleGap, tick_length |-> DefaultTickLength,
     position |-> <<4, 0>>]

DefaultMetrics ==
    [title_advance |-> 1, max_tick_width |-> 1, ascent |-> 1, descent |-> 0]

InitBar ==
    /\ colorbar = DefaultColorbar
    /\ font_metrics = DefaultMetrics
    /\ colorbar_item = NewOverlay(DefaultMetrics)
    /\ image = NoRaster
    /\ colorbar_bounds = << >>
    /\ extended = NoRaster

\* ------------------------------------------------- VisualizationConfig
\* The dataclasses of config_model.py with their default values.  A float is
\* an integer of the model: opacity in percent, a label position in
\* hundredths of the image size, delay_time in tenths of a second, the
\* other floats in their own unit.  The default colorbar title is written
\* without its micro sign.
GlobalConfig == [original_fps |-> 1, um_per_pixel |-> 1, output_fps |-> 30]

MaskConfig == [enabled |-> TRUE, opacity |-> 50]

ContourConfig == [enabled |-> TRUE, thickness |-> 2]

CentroidConfig ==
    [enabled |-> FALSE, marker_shape |-> "circle", marker_size |-> 5]

EllipseAxesConfig ==
    [show_major_axis |-> FALSE, show_minor_axis |-> FALSE,
     major_thickness |-> 1, major_color |-> "white",
     minor_thickness |-> 1, minor_color |-> "white"]

TrajectoryConfig ==
    [enabled |-> TRUE, mode |-> "full", delay_time |-> 10, thickness |-> 1,
     color_mode |-> "object"]

TimeLabelConfig ==
    [enabled |-> TRUE, unit |-> "s", font_family |-> "Arial",
     font_size |-> 24, font_bold |-> FALSE, color |-> "white",
     position |-> <<2, 2>>]

ScaleBarConfig ==
    [enabled |-> TRUE, thickness |-> 3, length_um |-> 50,
     bar_color |-> "white", text_enabled |-> TRUE,
     text_position |-> "below", text_gap |-> 5, font_family |-> "Arial",
     font_size |-> 18, font_bold |-> FALSE, text_color |-> "white",
     position |-> <<85, 92>>]

SpeedLabelConfig ==
    [enabled |-> TRUE, font_family |-> "Arial", font_size |-> 20,
     font_bold |-> FALSE, color |-> "white", position |-> <<2, 92>>]

ColorbarConfig ==
    [enabled |-> TRUE, colormap |-> "viridis", bar_height |-> 200,
     bar_width |-> 14, title |-> "Speed (um/s)",
     title_font_family |-> "Arial", title_font_size |-> 14,
     title_font_bold |-> FALSE, title_color |-> "black",
     title_position |-> "top", title_gap |-> 5, vmin |-> 0, vmax |-> 100,
     tick_interval |-> 20, tick_font_family |-> "Arial",
     tick_font_size |-> 12, tick_font_bold |-> FALSE,
     tick_color |-> "black", border_thickness |-> 1, tick_thickness |-> 1,
     tick_length |-> 5, position |-> <<102, 10>>]

OutputConfig ==
    [video_format |-> "mp4", image_prefix |-> "frame_",
     subfolder_name |-> "frames"]

\* VisualizationConfig() (142-155).
VisualizationConfig ==
    [global_config |-> GlobalConfig, mask |-> MaskConfig,
     contour |-> ContourConfig, centroid |-> CentroidConfig,
     ellipse_axes |-> EllipseAxesConfig, trajectory |-> TrajectoryConfig,
     time_label |-> TimeLabelConfig, scale_bar |-> ScaleBarConfig,
     speed_label |-> SpeedLabelConfig, colorbar |-> ColorbarConfig,
     output |-> OutputConfig]

\* JSON text, as the tree of its values: a value is written as a literal
\* (true, false), a number, a string or an array, after the type its field
\* is declared with and holds.
BoolFields ==
    {"enabled", "show_major_axis", "show_minor_axis", "font_bold",
     "text_enabled", "title_font_bold", "tick_font_bold"}

StrFields ==
    {"marker_shape", "major_color", "minor_color", "mode", "color_mode",
     "unit", "font_family", "color", "bar_color", "text_position",
     "text_color", "colormap", "title", "title_font_family", "title_color",
     "title_position", "tick_font_family", "tick_color", "video_format",
     "image_prefix", "subfolder_name"}

JsonKind(field) ==
    IF field \in BoolFields THEN "literal"
    ELSE IF field \in StrFields THEN "string"
    ELSE IF field = "position" THEN "array"
    ELSE "number"

\* json.dumps of one value (174-176).
dumps(value, kind) ==
    IF kind = "array"
    THEN <<"array", [i \in DOMAIN value |-> <<"number", value[i]>>]>>
    ELSE <<kind, value>>

\* json.loads of one value (210-211): an array becomes a list.
loads(text) ==
    IF text[1] = "array"
    THEN [i \in DOMAIN text[2] |-> text[2][i][2]]
    ELSE text[2]

\* dataclasses.asdict of a section: a dictionary of its fields, the position
\* list copied.
asdict(section) == [f \in DOMAIN section |-> section[f]]

\* to_dict (158-172).
to_dict(c) ==
    [global |-> asdict(c.global_config), mask |-> asdict(c.mask),
     contour |-> asdict(c.contour), centroid |-> asdict(c.centroid),
     ellipse_axes |-> asdict(c.ellipse_axes),
     trajectory |-> asdict(c.trajectory),
     time_label |-> asdict(c.time_label),
     scale_bar |-> asdict(c.scale_bar),
     speed_label |-> asdict(c.speed_label),
     colorbar |-> asdict(c.colorbar), output |-> asdict(c.output)]

\* to_json (174-176): every value of the dictionary written out.
to_json(c) ==
    LET d == to_dict(c)
    IN [k \in DOMAIN d |->
          [f \in DOMAIN d[k] |-> dumps(d[k][f], JsonKind(f))]]

\* XConfig(**data[key]) (183-204): the fields given, the defaults for the
\* others.
FromSection(defaults, data) ==
    [f \in DOMAIN defaults |->
        IF f \in DOMAIN data THEN data[f] ELSE defaults[f]]

\* A section of from_dict read under the key of the attribute's own name.
SectionOfAttribute(data, key, defaults) ==
    IF key = "global"
    THEN IF "global_config" \in DOMAIN data
         THEN FromSection(defaults, data["global_config"]) ELSE defaults
    ELSE IF key \in DOMAIN data THEN FromSection(defaults, data[key])
    ELSE defaults

\* One "if key in data" of from_dict (183-204).
SectionOf(data, key, defaults) ==
    IF key \in DOMAIN data THEN FromSection(defaults, data[key])
    ELSE defaults

\* from_dict (178-206).
from_dict(data) ==
    [global_config |-> SectionOf(data, "global", GlobalConfig),
     mask |-> SectionOf(data, "mask", MaskConfig),
     contour |-> SectionOf(data, "contour", ContourConfig),
     centroid |-> SectionOf(data, "centroid", CentroidConfig),
     ellipse_axes |-> SectionOf(data, "ellipse_axes", EllipseAxesConfig),
     trajectory |-> SectionOf(data, "trajectory", TrajectoryConfig),
     time_label |-> SectionOf(data, "time_label", TimeLabelConfig),
     scale_bar |-> SectionOf(data, "scale_bar", ScaleBarConfig),
     speed_label |-> SectionOf(data, "speed_label", SpeedLabelConfig),
     colorbar |-> SectionOf(data, "colorbar", ColorbarConfig),
     output |-> SectionOf(data, "output", OutputConfig)]

\* from_json (208-212): json.loads of the text, then from_dict.
from_json(json_str) ==
    from_dict([k \in DOMAIN json_str |->
                 [f \in DOMAIN json_str[k] |-> loads(json_str[k][f])]])

\* --------------------------------------------------------- FrameRenderer
\* A frame is one row of MaskWidth pixels of one channel; None in place of a
\* frame is a row of no pixels.
NoFrame == << >>

\* get_frame (data_manager.py 192-202): None outside the sequence and for a
\* file that does not load.
get_frame(index) ==
    IF index < 0 \/ index >= Len(original) THEN NoFrame
    ELSE original[index + 1]

\* get_label_position (frame_renderer.py 189-201): the dragged position if
\* there is one, else the one of the renderer's configuration.
get_label_position(label_name) ==
    IF label_name \in DOMAIN label_positions
    THEN label_positions[label_name]
    ELSE CASE label_name = "time" -> renderer_config.time_label.position
           [] label_name = "scale_bar" -> renderer_config.scale_bar.position
           [] label_name = "speed" -> renderer_config.speed_label.position
           [] label_name = "colorbar" -> renderer_config.colorbar.position
           [] OTHER -> <<0, 0>>

\* The brightest channel of an object colour: hsv_to_rgb with value 0.9
\* (color_mapper.py 39, 54-56).
ObjectColor == 229

\* n / d rounded to the nearest integer, a half to the even one (cvRound).
RoundHalfEven(n, d) ==
    LET q == n \div d
        r == n % d
    IN IF 2 * r < d THEN q
       ELSE IF 2 * r > d THEN q + 1
       ELSE IF q % 2 = 0 THEN q ELSE q + 1

\* cv2.addWeighted(a, 1 - opacity, b, opacity, 0) on 8-bit pixels.
addWeighted(a, b, opacity) ==
    LET v == RoundHalfEven(a * (100 - opacity) + b * opacity, 100)
    IN IF v > White THEN White ELSE v

\* colored_mask of _overlay_mask (297-308): the colour of every visible
\* object of the data manager on its pixels, zero elsewhere.
colored_mask(mask, frame_index) ==
    [x \in DOMAIN mask |->
        IF \E obj_id \in object_ids :
              is_visible(obj_id, frame_index) /\ mask[x] = obj_id
        THEN ObjectColor ELSE 0]

\* _overlay_mask (289-319): every pixel with a label is blended with
\* colored_mask (311-316).
overlay_mask(img, mask, frame_index, opacity) ==
    LET colored == colored_mask(mask, frame_index)
    IN [x \in DOMAIN img |->
          IF mask[x] > 0
          THEN addWeighted(img[x], colored[x], opacity) ELSE img[x]]

\* get_trajectory (trajectory_calculator.py 172-184).
get_trajectory(obj_id) ==
    IF obj_id \notin DOMAIN trajectories THEN << >>
    ELSE trajectories[obj_id].centroids

\* The list comprehensions of the renderer (512, 562-574): the points of a
\* list whose frame passes a test, in order, from index i on.
RECURSIVE Filter(_, _, _)
Filter(points, frames, i) ==
    IF i > Len(points) THEN << >>
    ELSE IF points[i][1] \in frames
         THEN <<points[i]>> \o Filter(points, frames, i + 1)
         ELSE Filter(points, frames, i + 1)

\* The frames 0..MaxFrameNo a window of the trajectory modes lets through.
WindowFrames(mode, frame_index, delay_frames) ==
    CASE mode = "start_to_current" -> {f \in FrameNos : f <= frame_index}
      [] mode = "delay_before" ->
           {f \in FrameNos : Max(0, frame_index - delay_frames) <= f
                             /\ f <= frame_index}
      [] mode = "delay_after" ->
           {f \in FrameNos : frame_index <= f
                             /\ f <= frame_index + delay_frames}
      [] OTHER -> FrameNos

\* _get_trajectory_segment_for_mode (548-577).
get_trajectory_segment_for_mode(obj_id, frame_index, mode, delay_frames) ==
    Filter(get_trajectory(obj_id),
           WindowFrames(mode, frame_index, delay_frames), 1)

\* visible_traj (510-513): the points at whose frame the object is visible.
visible_traj(obj_id, trajectory) ==
    Filter(trajectory, {f \in FrameNos : is_visible(obj_id, f)}, 1)

\* delay_frames (500-501): int(delay_time * fps), delay_time in tenths of a
\* second.
DelayFrames(cfg) ==
    (cfg.trajectory.delay_time * cfg.global_config.original_fps) \div 10

\* _draw_trajectories (489-546): per object of the data manager the polyline
\* drawn, as the list of its points (frame, int(x)); no points where nothing
\* is drawn.  cv2.line joins each point to the next.
draw_trajectories(cfg, frame_index) ==
    [obj_id \in object_ids |->
        LET trajectory ==
              get_trajectory_segment_for_mode(
                  obj_id, frame_index, cfg.trajectory.mode, DelayFrames(cfg))
            visible == visible_traj(obj_id, trajectory)
        IN IF Len(trajectory) < 2 THEN << >>
           ELSE IF Len(visible) < 2 THEN << >>
           ELSE [i \in DOMAIN visible |->
                   <<visible[i][1], visible[i][2] \div 2>>]]

Stage(enabled, name) == IF enabled THEN <<name>> ELSE << >>

\* The colorbar is drawn, and the canvas extended for it (252-254, 283-285).
draws_colorbar(cfg) ==
    cfg.colorbar.enabled /\ cfg.trajectory.color_mode = "velocity"

\* The stages of render_frame in the order of lines 233-285, the trajectory
\* stage after the centroid stage.
stages_centroid_first(cfg, has_mask, include_colorbar_area, draw_labels) ==
    Stage(has_mask /\ cfg.mask.enabled, "mask") \o
    Stage(has_mask /\ cfg.contour.enabled, "contour") \o
    Stage(has_mask /\ (cfg.ellipse_axes.show_major_axis
                       \/ cfg.ellipse_axes.show_minor_axis), "ellipse_axes") \o
    Stage(has_mask /\ cfg.centroid.enabled, "centroid") \o
    Stage(cfg.trajectory.enabled, "trajectory") \o
    Stage(include_colorbar_area /\ draws_colorbar(cfg), "extend") \o
    Stage(draw_labels /\ cfg.time_label.enabled, "time_label") \o
    Stage(draw_labels /\ cfg.scale_bar.enabled, "scale_bar") \o
    Stage(draw_labels /\ cfg.speed_label.enabled, "speed_label") \o
    Stage(draw_labels /\ draws_colorbar(cfg), "colorbar")

\* The stages render_frame runs, in order (233-285).
stages(cfg, has_mask, include_colorbar_area, draw_labels) ==
    Stage(has_mask /\ cfg.mask.enabled, "mask") \o
    Stage(has_mask /\ cfg.contour.enabled, "contour") \o
    Stage(has_mask /\ (cfg.ellipse_axes.show_major_axis
                       \/ cfg.ellipse_axes.show_minor_axis), "ellipse_axes") \o
    Stage(cfg.trajectory.enabled, "trajectory") \o
    Stage(has_mask /\ cfg.centroid.enabled, "centroid") \o
    Stage(include_colorbar_area /\ draws_colorbar(cfg), "extend") \o
    Stage(draw_labels /\ cfg.time_label.enabled, "time_label") \o
    Stage(draw_labels /\ cfg.scale_bar.enabled, "scale_bar") \o
    Stage(draw_labels /\ cfg.speed_label.enabled, "speed_label") \o
    Stage(draw_labels /\ draws_colorbar(cfg), "colorbar")

\* render_frame (203-287): what the call did.  masked is the raster after the
\* mask stage and lines the polylines of the trajectory stage, when these
\* stages ran.
render_frame(cfg, frame_index, include_colorbar_area, draw_labels) ==
    LET base_image == get_frame(frame_index)
        mask == get_mask(frame_index)
        has_mask == mask # NoMask
    IN IF base_image = NoFrame
       THEN [frame_index |-> frame_index,
             include_colorbar_area |-> include_colorbar_area,
             draw_labels |-> draw_labels, placeholder |-> TRUE,
             stages |-> << >>, masked |-> NoFrame, lines |-> EmptyDict]
       ELSE [frame_index |-> frame_index,
             include_colorbar_area |-> include_colorbar_area,
             draw_labels |-> draw_labels, placeholder |-> FALSE,
             stages |-> stages(cfg, has_mask, include_colorbar_area,
                               draw_labels),
             masked |-> IF has_mask /\ cfg.mask.enabled
                        THEN overlay_mask(base_image, mask, frame_index,
                                          cfg.mask.opacity)
                        ELSE base_image,
             lines |-> IF cfg.trajectory.enabled
                       THEN draw_trajectories(cfg, frame_index)
                       ELSE EmptyDict]

\* ---------------------------------- ParameterPanel and the controllers
\* The fields of a section that have no widget in the panel (get_config,
\* parameter_panel.py 1054-1139).
NotInPanel(section) ==
    CASE section = "global_config" -> {"original_fps", "um_per_pixel"}
      [] section = "colorbar" ->
           {"border_thickness", "tick_thickness", "tick_length", "position"}
      [] section = "output" -> DOMAIN OutputConfig
      [] OTHER -> {"position"}

\* What a widget shows for a value of the configuration (set_config,
\* 1141-1236): the combo boxes of the shapes, modes and positions show their
\* own texts, the colour-mode combo its index.
WidgetValue(field, value) ==
    CASE field = "marker_shape" ->
           (CASE value = "triangle" -> "Triangle" [] value = "star" -> "Star"
              [] OTHER -> "Circle")
      [] field = "mode" ->
           (CASE value = "start_to_current" -> "Start to Current"
              [] value = "delay_before" -> "Delay Before"
              [] value = "delay_after" -> "Delay After"
              [] OTHER -> "Full Trajectory")
      [] field = "color_mode" -> (IF value = "velocity" THEN 1 ELSE 0)
      [] field = "text_position" ->
           (IF value = "above" THEN "Above" ELSE "Below")
      [] field = "title_position" ->
           (IF value = "right" THEN "Right" ELSE "Top")
      [] OTHER -> value

\* What get_config reads from a widget (1054-1139).
ConfigValue(field, shown) ==
    CASE field = "marker_shape" ->
           (CASE shown = "Triangle" -> "triangle" [] shown = "Star" -> "star"
              [] OTHER -> "circle")
      [] field = "mode" ->
           (CASE shown = "Start to Current" -> "start_to_current"
              [] shown = "Delay Before" -> "delay_before"
              [] shown = "Delay After" -> "delay_after"
              [] OTHER -> "full")
      [] field = "color_mode" -> (IF shown = 1 THEN "velocity" ELSE "object")
      [] field = "text_position" ->
           (IF shown = "Above" THEN "above" ELSE "below")
      [] field = "title_position" ->
           (IF shown = "Right" THEN "right" ELSE "top")
      [] OTHER -> shown

\* ParameterPanel.set_config (1141-1236): the widgets after the call.
Widgets(cfg) ==
    [s \in DOMAIN cfg |->
        [f \in DOMAIN cfg[s] \ NotInPanel(s) |-> WidgetValue(f, cfg[s][f])]]

\* ParameterPanel.get_config (1054-1139): a new VisualizationConfig with the
\* values of the widgets; a field without a widget keeps its default.
get_config(widgets) ==
    [s \in DOMAIN VisualizationConfig |->
        [f \in DOMAIN VisualizationConfig[s] |->
            IF f \in DOMAIN widgets[s] THEN ConfigValue(f, widgets[s][f])
            ELSE VisualizationConfig[s][f]]]

\* original_fps and um_per_pixel carried over from the configuration in use
\* (main_controller.py 337-344, 398-402, 427-430).
PreserveData(new, old) ==
    [new EXCEPT !.global_config.original_fps = old.global_config.original_fps,
                !.global_config.um_per_pixel = old.global_config.um_per_pixel]

\* show_colorbar of _update_overlay_items (preview_controller.py 231-235).
show_colorbar(cfg) ==
    /\ cfg.colorbar.enabled
    /\ cfg.trajectory.enabled
    /\ cfg.trajectory.color_mode = "velocity"

\* Nothing has been rendered.
NoOutput == [mode |-> "none"]

\* update_preview (150-175) with configuration cfg: edit mode renders without
\* labels and decides which overlay items to show, final mode renders with
\* labels and colorbar area.
update_preview(cfg, mode, frame_index) ==
    IF mode = "edit"
    THEN [mode |-> "edit", show_colorbar |-> show_colorbar(cfg),
          frame |-> render_frame(cfg, frame_index, FALSE, FALSE)]
    ELSE [mode |-> "final", show_colorbar |-> FALSE,
          frame |-> render_frame(cfg, frame_index, TRUE, TRUE)]

\* PreviewController.set_config (81-89): the renderer gets the configuration
\* and the preview is rendered again.
SetConfig(cfg) ==
    /\ renderer_config' = cfg
    /\ frame_out' = update_preview(cfg, preview_mode, current_frame)

\* The variables of the other components, which the handlers of the
\* configuration leave alone.
captionVars == <<text_widths, caption_x>>

otherVars == <<exportVars, sharedVars, objVars, calcVars, barVars,
               captionVars>>

\* _on_label_position_changed (341-353): the drag of a label, shown in edit
\* mode only, to a position.  The renderer's map and the preview
\* controller's configuration are written.
OnLabelPositionChanged(name, pos) ==
    LET attr == CASE name = "time" -> "time_label"
                  [] name = "scale_bar" -> "scale_bar"
                  [] name = "speed" -> "speed_label"
                  [] name = "colorbar" -> "colorbar"
    IN /\ preview_mode = "edit"
       /\ label_positions' =
            [n \in DOMAIN label_positions \cup {name} |->
                IF n = name THEN pos ELSE label_positions[n]]
       /\ renderer_config' = [renderer_config EXCEPT ![attr].position = pos]
       /\ config' = IF shared THEN renderer_config' ELSE config
       /\ UNCHANGED <<shared, panel, config_file, original, frame_out,
                      previewVars, otherVars>>

\* A widget of the panel is given another value and emits config_changed:
\* _on_config_changed (main_controller.py 334-348).
OnConfigChanged(section, field, shown) ==
    /\ panel[section][field] # shown
    /\ panel' = [panel EXCEPT ![section][field] = shown]
    /\ config' = PreserveData(get_config(panel'), config)
    /\ shared' = TRUE
    /\ SetConfig(config')
    /\ UNCHANGED <<label_positions, config_file, original, previewVars,
                   otherVars>>

\* _save_config (381-412): the configuration is read from the panel again
\* and written to the file; the preview controller is not told.
SaveConfig ==
    /\ config' = PreserveData(get_config(panel), config)
    /\ shared' = FALSE
    /\ config_file' = to_json(config')
    /\ UNCHANGED <<renderer_config, panel, label_positions, original,
                   frame_out, previewVars, otherVars>>

\* No configuration file has been written.
NoFile == << >>

\* _load_config (414-445) of a file that loads.
LoadConfig ==
    /\ config_file # NoFile
    /\ config' = PreserveData(from_json(config_file), config)
    /\ shared' = TRUE
    /\ panel' = Widgets(config')
    /\ SetConfig(config')
    /\ UNCHANGED <<label_positions, config_file, original, previewVars,
                   otherVars>>

\* render_frame called with the given arguments, as the exporter
\* (video_exporter.py 130-134) and the preview (preview_controller.py
\* 157-171) call it.
RenderFrame(frame_index, include_colorbar_area, draw_labels) ==
    /\ frame_out' =
         [mode |-> "call", show_colorbar |-> FALSE,
          frame |-> render_frame(renderer_config, frame_index,
                                 include_colorbar_area, draw_labels)]
    /\ UNCHANGED <<config, renderer_config, shared, panel, label_positions,
                   config_file, original, previewVars, otherVars>>

\* set_preview_mode (91-106) followed into the rendered frame.
SetPreviewModeRender(m) ==
    /\ preview_mode' = m
    /\ frame_out' = update_preview(renderer_config, m, current_frame)
    /\ UNCHANGED <<config, renderer_config, shared, panel, label_positions,
                   config_file, original, is_playing, current_frame,
                   otherVars>>

\* ------------------------------------------------- captions centred on a bar
\* x coordinates are relative to the item's origin for the scale bar (the
\* label position, which both modes share) and to the left edge of the bar
\* for the colorbar.  A caption that was not drawn has no x.
NoCaption ==
    [edit |-> [scale_bar |-> {}, colorbar |-> {}],
     final |-> [scale_bar |-> {}, colorbar |-> {}]]

\* bar_length_px (frame_renderer.py 664, preview_controller.py 203).
bar_length_px(cfg) ==
    cfg.scale_bar.length_um \div cfg.global_config.um_per_pixel

\* DraggableScaleBar.paint (graphics_items.py 335, 361): the caption
\* starts at text_x.
paint_scale_text_x(bar_length, text_width) ==
    10 + (bar_length - text_width) \div 2

\* _draw_scale_bar (675, 701) and _draw_text_baseline (1508-1510):
\* the caption is centred on bar_x + bar_length_px // 2 and its first pixel
\* is half its width to the left.
draw_scale_text_x(bar_length, text_width) ==
    (10 + bar_length \div 2) - text_width \div 2

\* DraggableColorbar.paint (561), from the left edge of the bar.
paint_title_x(bar_width, title_width) == (bar_width - title_width) \div 2

\* _draw_colorbar (1297) and _draw_text_baseline_centered (1063-1065),
\* from the left edge of the bar.
draw_title_x(bar_width, title_width) ==
    bar_width \div 2 - title_width \div 2

\* The scale bar is painted in edit mode or drawn in final mode.
DrawScaleCaption(mode) ==
    /\ renderer_config.scale_bar.enabled
    /\ renderer_config.scale_bar.text_enabled
    /\ renderer_config.global_config.um_per_pixel > 0
    /\ LET length == bar_length_px(renderer_config)
           x == IF mode = "edit"
                THEN paint_scale_text_x(length, text_widths.scale)
                ELSE draw_scale_text_x(length, text_widths.scale)
       IN caption_x' = [caption_x EXCEPT ![mode].scale_bar = {x}]
    /\ UNCHANGED <<config, renderer_config, shared, panel, label_positions,
                   config_file, original, frame_out, text_widths,
                   exportVars, previewVars, sharedVars, objVars, calcVars,
                   barVars>>

\* The colorbar with its title on top is painted in edit mode or drawn in
\* final mode.
DrawTitle(mode) ==
    /\ renderer_config.colorbar.title_position = "top"
    /\ LET width == renderer_config.colorbar.bar_width
           x == IF mode = "edit"
                THEN paint_title_x(width, text_widths.title)
                ELSE draw_title_x(width, text_widths.title)
       IN caption_x' = [caption_x EXCEPT ![mode].colorbar = {x}]
    /\ UNCHANGED <<config, renderer_config, shared, panel, label_positions,
                   config_file, original, frame_out, text_widths,
                   exportVars, previewVars, sharedVars, objVars, calcVars,
                   barVars>>

\* Before any data is loaded: the default configuration shown in the panel
\* (main_controller.py 43, 86-93), no renderer, nothing rendered.
InitRender ==
    /\ config = VisualizationConfig
    /\ renderer_config = VisualizationConfig
    /\ shared = TRUE
    /\ panel = Widgets(VisualizationConfig)
    /\ label_positions = EmptyDict
    /\ config_file = NoFile
    /\ original = << >>
    /\ frame_out = NoOutput
    /\ text_widths = [scale |-> 0, title |-> 0]
    /\ caption_x = NoCaption

\* ------------------------------------------------------------ specification
InitPreviewIdle ==
    /\ preview_mode = "edit"
    /\ is_playing = FALSE
    /\ current_frame = 0
    /\ frame_ok = FrameIdxs
    /\ pil_available = TRUE
    /\ velocity_mode = FALSE
    /\ font_cache = FALSE
    /\ colormap_cache = FALSE
    /\ label_dragged = FALSE
    /\ w_read = {} /\ w_write = {} /\ p_read = {} /\ p_write = {}

InitRun ==
    /\ cancelled = FALSE
    /\ pc = "idle"
    /\ frame_idx = 0
    /\ video_writer = "none"
    /\ executor = "none"
    /\ await_idx = 0
    /\ raised = FALSE
    /\ task = [i \in FrameIdxs |-> "none"]
    /\ files = {}
    /\ events = << >>
    /\ rendered = << >>
    /\ encoded = << >>
    /\ dialog_cancelled = FALSE
    /\ pending_progress = 0

Init ==
    /\ renderer_set \in BOOLEAN
    /\ frame_count \in 0..MaxFrames
    /\ export_video \in BOOLEAN
    /\ video_format \in (IF export_video THEN VideoFormats ELSE {"mp4"})
    /\ export_images \in BOOLEAN
    /\ InitRun
    /\ InitPreviewIdle
    /\ InitObj
    /\ InitCalc
    /\ InitBar
    /\ InitRender

Next ==
    \/ Start
    \/ RunBegin
    \/ CreateWriter
    \/ CreateWriterRaises
    \/ LoopCheck
    \/ Render
    \/ Encode
    \/ Submit
    \/ Progress
    \/ Await
    \/ Shutdown
    \/ CloseWriter
    \/ Report
    \/ HandleException
    \/ \E i \in FrameIdxs : WorkerStart(i)
    \/ \E i \in FrameIdxs : WorkerFinish(i)
    \/ CancelExport
    \/ ClickCancel
    \/ OnProgressUpdated

Spec == Init /\ [][Next]_vars

\* The sequential run of the exporter alone, for long frame sequences: no
\* video, no images, no cancellation.
InitProgress ==
    /\ renderer_set = TRUE
    /\ frame_count \in 1..MaxProgressFrames
    /\ export_video = FALSE
    /\ video_format = "mp4"
    /\ export_images = FALSE
    /\ InitRun
    /\ InitPreviewIdle
    /\ InitObj
    /\ InitCalc
    /\ InitBar
    /\ InitRender

NextProgress ==
    \/ Start
    \/ RunBegin
    \/ CreateWriter
    \/ LoopCheck
    \/ Render
    \/ Encode
    \/ Submit
    \/ Progress
    \/ Await
    \/ Shutdown
    \/ CloseWriter
    \/ Report
    \/ HandleException

SpecProgress == InitProgress /\ [][NextProgress]_vars

\* ------------------------------------------- PreviewController, GUI thread
\* update_preview (150-175) for frame f in the given mode: edit mode renders
\* without labels and refreshes the overlay items, which fetch the colormap
\* image when the colorbar is shown (231-243); final mode renders with labels
\* and colorbar area.  What the GUI thread touches counts while a run is in
\* flight.
UpdatePreview(f, mode) ==
    LET labels == mode = "final"
        overlay == mode = "edit" /\ velocity_mode
        rd == RenderReads(f, labels) \cup
              (IF overlay THEN {"colormap_cache"} ELSE {})
        wr == RenderWrites(f, labels) \cup
              (IF overlay /\ ~colormap_cache THEN {"colormap_cache"} ELSE {})
    IN /\ p_read' = IF InFlight THEN p_read \cup rd ELSE p_read
       /\ p_write' = IF InFlight THEN p_write \cup wr ELSE p_write
       /\ font_cache' = FontAfter(f, labels)
       /\ colormap_cache' = (ColormapAfter(f, labels) \/ overlay)
       /\ UNCHANGED <<frame_ok, pil_available, velocity_mode, label_dragged,
                      w_read, w_write>>

\* play (278-287); the play button is unreachable under the modal dialog.
Play ==
    /\ ~Modal
    /\ ~is_playing
    /\ is_playing' = TRUE
    /\ UNCHANGED <<exportVars, preview_mode, current_frame, sharedVars>>
    /\ UNCHANGED restVars

\* pause (289-295).
Pause ==
    /\ ~Modal
    /\ is_playing
    /\ is_playing' = FALSE
    /\ UNCHANGED <<exportVars, preview_mode, current_frame, sharedVars>>
    /\ UNCHANGED restVars

\* seek (297-310), from the slider or the frame buttons.
Seek(f) ==
    /\ ~Modal
    /\ current_frame' = f
    /\ UpdatePreview(f, preview_mode)
    /\ UNCHANGED <<exportVars, preview_mode, is_playing>>
    /\ UNCHANGED restVars

\* _on_playback_tick (320-331): the QTimer fires in the GUI thread's event
\* loop, also while the modal dialog is shown.
PlaybackTick ==
    /\ is_playing
    /\ LET next == IF current_frame + 1 >= frame_count THEN 0
                   ELSE current_frame + 1
       IN /\ current_frame' = next
          /\ UpdatePreview(next, preview_mode)
    /\ UNCHANGED <<exportVars, preview_mode, is_playing>>
    /\ UNCHANGED restVars

\* set_preview_mode (91-106).
SetPreviewMode(m) ==
    /\ ~Modal
    /\ preview_mode' = m
    /\ UpdatePreview(current_frame, m)
    /\ UNCHANGED <<exportVars, is_playing, current_frame>>
    /\ UNCHANGED restVars

\* _on_label_position_changed (341-353): a drag of an overlay item, shown in
\* edit mode only, writes the renderer's position map and the configuration.
LabelDrag ==
    /\ ~Modal
    /\ preview_mode = "edit"
    /\ label_dragged' = TRUE
    /\ p_write' = IF InFlight THEN p_write \cup {"renderer", "config"}
                  ELSE p_write
    /\ UNCHANGED <<exportVars, previewVars, frame_ok, pil_available,
                   velocity_mode, font_cache, colormap_cache, w_read, w_write,
                   p_read>>
    /\ UNCHANGED restVars

\* After _initialize_visualization (main_controller.py 240-277): a new
\* renderer with an empty font cache, shared with the export controller, and
\* one update_preview in edit mode.  The first image of the sequence loads
\* (DataManager.load_original_sequence); any other may fail to load.
InitShared ==
    /\ renderer_set = TRUE
    /\ frame_count = PreviewFrames
    /\ export_video = FALSE
    /\ video_format = "mp4"
    /\ export_images = FALSE
    /\ InitRun
    /\ preview_mode = "edit"
    /\ is_playing = FALSE
    /\ current_frame = 0
    /\ frame_ok \in {s \in SUBSET FrameIdxs : 0 \in s}
    /\ pil_available \in BOOLEAN
    /\ velocity_mode \in BOOLEAN
    /\ font_cache = FALSE
    /\ colormap_cache = velocity_mode
    /\ label_dragged = FALSE
    /\ w_read = {} /\ w_write = {} /\ p_read = {} /\ p_write = {}
    /\ InitObj
    /\ InitCalc
    /\ InitBar
    /\ InitRender

NextShared ==
    \/ Start
    \/ RunBegin
    \/ CreateWriter
    \/ LoopCheck
    \/ Render
    \/ Encode
    \/ Submit
    \/ Progress
    \/ Await
    \/ Shutdown
    \/ CloseWriter
    \/ Report
    \/ HandleException
    \/ Play
    \/ Pause
    \/ \E f \in FrameIdxs : Seek(f)
    \/ PlaybackTick
    \/ \E m \in {"edit", "final"} : SetPreviewMode(m)
    \/ LabelDrag

SpecShared == InitShared /\ [][NextShared]_vars

\* No export is configured or running.
InitExportIdle ==
    /\ renderer_set = FALSE
    /\ frame_count = 0
    /\ export_video = FALSE
    /\ video_format = "mp4"
    /\ export_images = FALSE
    /\ InitRun
    /\ InitPreviewIdle

\* The ObjectManager alone, under any sequence of its calls.
InitObjects ==
    /\ InitExportIdle
    /\ InitObj
    /\ InitCalc
    /\ InitBar
    /\ InitRender

NextObjects ==
    \/ \E o \in ObjIds, f \in Thresholds : hide_object_before(o, f)
    \/ \E o \in ObjIds, f \in Thresholds : hide_object_after(o, f)
    \/ \E o \in ObjIds : restore_object(o)
    \/ restore_all
    \/ \E data \in RecordLists(MaxListLen) : from_list(data)

SpecObjects == InitObjects /\ [][NextObjects]_vars

\* The mask rows of the model: the first pixel belongs to object 1, the
\* others to the background or to another object.
MaskRows ==
    {r \in [1..MaskWidth -> 0..MaxLabel] :
        r[1] = 1 /\ \A x \in 2..MaskWidth : r[x] # 1}

\* No masks at all, or n masks of which the first loads (validate_sequences,
\* data_manager.py 166-168) and each later one loads or not.
RECURSIVE MaskTails(_)
MaskTails(n) ==
    IF n = 0 THEN {<< >>}
    ELSE {Append(m, r) : m \in MaskTails(n - 1), r \in MaskRows \cup {NoMask}}

MaskSequences(n) ==
    {<< >>} \cup {<<r>> \o m : r \in MaskRows, m \in MaskTails(n - 1)}

\* The points of an external trajectory, and the lists of them.
ExtPoints == {<<f, x2, 0>> : f \in 0..MaxExtFrame, x2 \in 1..MaxHalfX}

RECURSIVE PointLists(_)
PointLists(n) ==
    IF n = 0 THEN {<< >>}
    ELSE LET shorter == PointLists(n - 1)
         IN shorter \cup {Append(l, p) : l \in shorter, p \in ExtPoints}

RECURSIVE TotalPoints(_, _)
TotalPoints(ext, o) ==
    IF o = 0 THEN 0 ELSE Len(ext[o]) + TotalPoints(ext, o - 1)

\* The dictionaries given to set_from_external_data; an object with an empty
\* list stands for an absent one as well (376).
ExtTrajectories ==
    {ext \in [1..MaxExtId -> PointLists(MaxTotalPoints)] :
        TotalPoints(ext, MaxExtId) <= MaxTotalPoints}

\* The TrajectoryCalculator over a fixed mask sequence.
InitCalculator ==
    /\ InitExportIdle
    /\ InitObj
    /\ InitBar
    /\ InitRender
    /\ masks \in MaskSequences(MaxMaskFrames)
    /\ trajectories = EmptyDict
    /\ is_calculated = FALSE
    /\ last_fps = 0
    /\ last_um_per_pixel = 0
    /\ import_result = "none"
    /\ ext_ids = {}
    /\ ext_dups = {}
    /\ requested = <<0, 0>>
    /\ intact = TRUE

NextCalculator ==
    \/ \E fps \in 0..MaxFps, um \in 1..MaxUm :
         calculate_all_trajectories(fps, um)
    \/ \E ext \in ExtTrajectories, fps \in 0..MaxFps, um \in 1..MaxUm :
         set_from_external_data(ext, fps, um)

SpecCalculator == InitCalculator /\ [][NextCalculator]_vars

\* Rescaling: masks in which object 1 moves, parameters that include zero,
\* and external data for one object.
MaxScale == 2
MaxRescaleFrames == 2

\* <<fps, scale>>: one of them zero, or both positive.
ScaleParams ==
    {<<0, 1>>, <<1, 0>>} \cup
    {p \in (1..MaxScale) \X (1..MaxScale) : p[1] * p[2] <= MaxScale}

\* Object 1 alone, in the first or in the last pixel of the row.
RescaleRows ==
    {[x \in 1..MaskWidth |-> IF x = c THEN 1 ELSE 0] : c \in {1, MaskWidth}}

RescaleMasks == [1..MaxRescaleFrames -> RescaleRows]

\* Points over the first or over the last pixel, and external data of at
\* most two of them for object 1.
RescalePoints ==
    {<<f, x2, 0>> : f \in 0..(MaxRescaleFrames - 1), x2 \in {1, MaskWidth}}

RescaleExt ==
    {[o \in 1..MaxExtId |-> IF o = 1 THEN l ELSE << >>] :
        l \in {<< >>} \cup {<<p>> : p \in RescalePoints}
                      \cup {<<p, q>> : p, q \in RescalePoints}}

InitRescale ==
    /\ InitExportIdle
    /\ InitObj
    /\ InitBar
    /\ InitRender
    /\ masks \in RescaleMasks
    /\ trajectories = EmptyDict
    /\ is_calculated = FALSE
    /\ last_fps = 0
    /\ last_um_per_pixel = 0
    /\ import_result = "none"
    /\ ext_ids = {}
    /\ ext_dups = {}
    /\ requested = <<0, 0>>
    /\ intact = TRUE

NextRescale ==
    \/ \E p \in ScaleParams : calculate_all_trajectories(p[1], p[2])
    \/ \E ext \in RescaleExt, p \in ScaleParams :
         set_from_external_data(ext, p[1], p[2])
    \/ \E p \in ScaleParams : rescale_velocities(p[1], p[2])

SpecRescale == InitRescale /\ [][NextRescale]_vars

\* The colorbar: configurations, font metrics and rasters.
MaxBarSize == 1
MaxGap == 0
MaxTitleAdvance == 30
MaxAscent == 2
MaxDescent == 1
MaxTickWidth == 1
MaxImageWidth == 40
MaxImageHeight == 30
MaxPos == 2

BarWidths == (1..MaxBarSize) \cup {DefaultBarWidth}
BarHeights == (1..MaxBarSize) \cup {DefaultBarHeight}
TitleGaps == (0..MaxGap) \cup {DefaultTitleGap}
TickLengths == (0..MaxGap) \cup {DefaultTickLength}
Titles == {"", "v"}
TitlePositions == {"top", "right"}

FontMetrics ==
    [title_advance : {1, MaxTitleAdvance}, max_tick_width : {MaxTickWidth},
     ascent : {MaxAscent}, descent : 0..MaxDescent]

\* The colorbar shown at the top-left corner, in velocity mode.
ShownColorbars ==
    [enabled : {TRUE}, color_mode : {"velocity"}, bar_width : BarWidths,
     bar_height : BarHeights, title : Titles,
     title_position : TitlePositions, title_gap : TitleGaps,
     tick_length : TickLengths, position : {<<0, 0>>}]

\* A frame of w by h pixels, none of them white.
Frame(w, h) ==
    [w |-> w, h |-> h,
     px |-> [p \in Pixels(w, h) |-> (p[1] + 2 * p[2]) % White]]

\* The renderer's bounds beside the overlay item and its setters.
InitColorbar ==
    /\ InitExportIdle
    /\ InitObj
    /\ InitCalc
    /\ InitRender
    /\ colorbar \in ShownColorbars
    /\ font_metrics \in FontMetrics
    /\ colorbar_item = NewOverlay(font_metrics)
    /\ image = Frame(1, 1)
    /\ colorbar_bounds = << >>
    /\ extended = NoRaster

NextColorbar ==
    \/ CalculateColorbarBounds
    \/ \E width \in BarWidths, height \in BarHeights :
         set_bar_size(width, height)
    \/ \E title \in Titles : set_title(title)
    \/ \E position \in TitlePositions : set_title_position(position)
    \/ \E gap \in TitleGaps : set_title_gap(gap)
    \/ \E length \in TickLengths : set_tick_style(length)

SpecColorbar == InitColorbar /\ [][NextColorbar]_vars

\* Small colorbars, shown or not, anchored left of, at and inside the frame.
Anchors == {-MaxPos, 0, MaxPos}

SmallColorbars ==
    [enabled : BOOLEAN, color_mode : {"velocity", "uniform"},
     bar_width : {MaxBarSize}, bar_height : {MaxBarSize}, title : Titles,
     title_position : TitlePositions, title_gap : {MaxGap},
     tick_length : {MaxGap}, position : Anchors \X Anchors]

SmallMetrics == {fm \in FontMetrics : fm.descent = MaxDescent}

Images ==
    {Frame(w, h) : w \in (MaxImageWidth - 1)..MaxImageWidth,
                   h \in (MaxImageHeight - 1)..MaxImageHeight}

InitExtend ==
    /\ InitExportIdle
    /\ InitObj
    /\ InitCalc
    /\ InitRender
    /\ colorbar \in SmallColorbars
    /\ font_metrics \in SmallMetrics
    /\ colorbar_item = NewOverlay(font_metrics)
    /\ image \in Images
    /\ colorbar_bounds = << >>
    /\ extended = NoRaster

NextExtend == ExtendForColorbar

SpecExtend == InitExtend /\ [][NextExtend]_vars

\* The mask and trajectory stages of the renderer: a sequence of equal
\* masks, objects hidden before or after the middle frame, trajectories
\* calculated from the masks or imported, every trajectory mode.
OverlayMasks == {[f \in 1..MaxMaskFrames |-> r] : r \in MaskRows}

OverlayHidden ==
    {<< >>} \cup
    {<<HiddenRecord(o, m, 1)>> : o \in 1..MaxLabel,
                                         m \in {"before", "after"}}

OverlayConfigs ==
    {[VisualizationConfig EXCEPT !.mask.opacity = op,
                                 !.trajectory.mode = m,
                                 !.trajectory.delay_time = d] :
        op \in {0, 50}, d \in {5, 15},
        m \in {"full", "start_to_current", "delay_before", "delay_after"}}

\* Two imported objects, both on the pixel of label 1 at frames 0 and 1.
OverlayExt == {[o \in 1..MaxExtId |-> <<<<0, 1, 0>>, <<1, 1, 0>>>>]}

InitOverlay ==
    /\ InitExportIdle
    /\ InitBar
    /\ hidden_records \in OverlayHidden
    /\ last_op = Op("none", 0, 0)
    /\ masks \in OverlayMasks
    /\ trajectories = EmptyDict
    /\ is_calculated = FALSE
    /\ last_fps = 0
    /\ last_um_per_pixel = 0
    /\ import_result = "none"
    /\ ext_ids = {}
    /\ ext_dups = {}
    /\ requested = <<0, 0>>
    /\ intact = TRUE
    /\ config \in OverlayConfigs
    /\ renderer_config = config
    /\ shared = TRUE
    /\ panel = Widgets(config)
    /\ label_positions = EmptyDict
    /\ config_file = NoFile
    /\ original \in {[f \in 1..MaxMaskFrames |-> [x \in 1..MaskWidth |-> v]] :
                       v \in {0, 200}}
    /\ frame_out = NoOutput
    /\ text_widths = [scale |-> 0, title |-> 0]
    /\ caption_x = NoCaption

NextOverlay ==
    \/ calculate_all_trajectories(config.global_config.original_fps,
                                  config.global_config.um_per_pixel)
    \/ \E ext \in OverlayExt :
         set_from_external_data(ext, config.global_config.original_fps,
                                config.global_config.um_per_pixel)
    \/ /\ is_calculated
       /\ \E f \in 0..(MaxMaskFrames - 1) : RenderFrame(f, FALSE, FALSE)

SpecOverlay == InitOverlay /\ [][NextOverlay]_vars

\* The stages of render_frame: every combination of the flags that enable a
\* stage, a frame with a mask, a frame whose mask does not load, a frame that
\* may not load, and an index past the end of the sequence.
StageFlags == [1..11 -> BOOLEAN]

StageConfig(b) ==
    [VisualizationConfig EXCEPT
        !.mask.enabled = b[1],
        !.contour.enabled = b[2],
        !.ellipse_axes.show_major_axis = b[3],
        !.ellipse_axes.show_minor_axis = b[4],
        !.trajectory.enabled = b[5],
        !.centroid.enabled = b[6],
        !.colorbar.enabled = b[7],
        !.trajectory.color_mode = IF b[8] THEN "velocity" ELSE "object",
        !.time_label.enabled = b[9],
        !.scale_bar.enabled = b[10],
        !.speed_label.enabled = b[11]]

StageRow == [x \in 1..MaskWidth |-> IF x = 1 THEN 1 ELSE 0]

InitStages ==
    /\ InitExportIdle
    /\ InitBar
    /\ InitObj
    /\ masks = <<StageRow, NoMask>>
    /\ trajectories = [o \in {1} |->
                         [centroids |-> <<<<0, 0, 0>>>>, velocities |-> << >>]]
    /\ is_calculated = TRUE
    /\ last_fps = 1
    /\ last_um_per_pixel = 1
    /\ import_result = "calculated"
    /\ ext_ids = {}
    /\ ext_dups = {}
    /\ requested = <<1, 1>>
    /\ intact = TRUE
    /\ config \in {StageConfig(b) : b \in StageFlags}
    /\ renderer_config = config
    /\ shared = TRUE
    /\ panel = Widgets(config)
    /\ label_positions = EmptyDict
    /\ config_file = NoFile
    /\ original \in {<<StageRow, StageRow>>, <<StageRow, NoFrame>>}
    /\ frame_out = NoOutput
    /\ text_widths = [scale |-> 0, title |-> 0]
    /\ caption_x = NoCaption

NextStages ==
    \E f \in 0..2, include_colorbar_area \in BOOLEAN, draw_labels \in BOOLEAN :
       RenderFrame(f, include_colorbar_area, draw_labels)

SpecStages == InitStages /\ [][NextStages]_vars

\* The configuration under label drags, panel changes, saves and loads, after
\* _initialize_visualization (main_controller.py 240-277) on a sequence of
\* one frame of one row: the colorbar is sized after the image height
\* (250-254), the panel shows the configuration, a new renderer holds it and
\* the preview was rendered in edit mode.
LabelNames == {"time", "scale_bar", "speed", "colorbar"}

DragPositions == {<<50, 50>>}

PanelChanges ==
    {<<"trajectory", "enabled", b>> : b \in BOOLEAN} \cup
    {<<"trajectory", "color_mode", i>> : i \in {0, 1}} \cup
    {<<"colorbar", "enabled", b>> : b \in BOOLEAN}

InitialConfigs ==
    {[VisualizationConfig EXCEPT !.global_config.original_fps = fps,
                                 !.colorbar.bar_height = (1 * 2) \div 3,
                                 !.colorbar.bar_width =
                                    Max(5, ((1 * 2) \div 3) \div 15)] :
        fps \in {1, 2}}

InitConfig ==
    /\ InitExportIdle
    /\ InitBar
    /\ InitObj
    /\ masks = <<StageRow>>
    /\ trajectories = [o \in {1} |->
                         [centroids |-> <<<<0, 0, 0>>>>, velocities |-> << >>]]
    /\ is_calculated = TRUE
    /\ last_fps = 1
    /\ last_um_per_pixel = 1
    /\ import_result = "calculated"
    /\ ext_ids = {}
    /\ ext_dups = {}
    /\ requested = <<1, 1>>
    /\ intact = TRUE
    /\ config \in InitialConfigs
    /\ renderer_config = config
    /\ shared = TRUE
    /\ panel = Widgets(config)
    /\ label_positions = EmptyDict
    /\ config_file = NoFile
    /\ original = <<StageRow>>
    /\ frame_out = update_preview(config, "edit", 0)
    /\ text_widths = [scale |-> 0, title |-> 0]
    /\ caption_x = NoCaption

NextConfig ==
    \/ \E name \in LabelNames, pos \in DragPositions :
         OnLabelPositionChanged(name, pos)
    \/ \E c \in PanelChanges : OnConfigChanged(c[1], c[2], c[3])
    \/ SaveConfig
    \/ LoadConfig
    \/ \E m \in {"edit", "final"} : SetPreviewModeRender(m)

SpecConfig == InitConfig /\ [][NextConfig]_vars

\* The captions of the scale bar and of the colorbar in both modes, for bars
\* and texts of every small length.
MaxBarLength == 4
MaxTextWidth == 3

CaptionConfigs ==
    {[VisualizationConfig EXCEPT !.scale_bar.length_um = length,
                                 !.colorbar.bar_width = width] :
        length \in 1..MaxBarLength, width \in 1..MaxBarLength}

InitCaption ==
    /\ InitExportIdle
    /\ InitBar
    /\ InitObj
    /\ InitCalc
    /\ config \in CaptionConfigs
    /\ renderer_config = config
    /\ shared = TRUE
    /\ panel = Widgets(config)
    /\ label_positions = EmptyDict
    /\ config_file = NoFile
    /\ original = << >>
    /\ frame_out = NoOutput
    /\ text_widths \in [scale : 1..MaxTextWidth, title : 1..MaxTextWidth]
    /\ caption_x = NoCaption

NextCaption ==
    \/ \E mode \in {"edit", "final"} : DrawScaleCaption(mode)
    \/ \E mode \in {"edit", "final"} : DrawTitle(mode)

SpecCaption == InitCaption /\ [][NextCaption]_vars

\* ------------------------------------------------------------------ claims
\* C2: a run ends by emitting export_finished exactly once, as its last
\* signal, with a result that is one of completed, cancelled or failed (the
\* success flag set for completed only); an exception raised inside run() is
\* caught and reported as the failed result.
C2_FinishedOnceAndLast ==
    /\ Cardinality(Finished) <= 1
    /\ \A i \in Finished :
         /\ i = Len(events)
         /\ events[i].b \in {"completed", "cancelled", "failed"}
         /\ (events[i].a = 1) <=> (events[i].b = "completed")
    /\ (pc = "done") <=> (Finished # {})
    /\ raised => pc \in {"except", "done"}
    /\ (raised /\ pc = "done") => Result = "failed"

\* C2 witness: an exception raised after some frames were reported has ended
\* the run with the failed result.
C2_Witness ==
    /\ pc = "done" /\ raised /\ Result = "failed"
    /\ Len(events) > 2

\* C3: a run that reports cancellation processed fewer frames than the total,
\* and a run that processed every frame without an exception reports
\* completion.
C3_CancelledMeansIncomplete ==
    /\ Result = "cancelled" => frame_idx < frame_count
    /\ (pc = "done" /\ ~raised /\ frame_count > 0 /\ frame_idx = frame_count)
          => Result = "completed"

C5_EncoderInOrder ==
    /\ \A k \in DOMAIN encoded : encoded[k] = k - 1
    /\ video_writer # "none" =>
         \A r \in DOMAIN rendered : rendered[r].idx <= Len(encoded)

\* C5 witness: three frames are in the encoder while image writes still run.
C5_Witness ==
    /\ Len(encoded) >= 3
    /\ Running # {}
    /\ Queued # {}

\* C6: once cancel() has set the flag of a started exporter (one that has a
\* renderer and frames to export), the flag stays set until the run has
\* reported its result: no step of the export thread clears it.
C6_FlagStaysSet ==
    [][(renderer_set /\ frame_count > 0 /\ pc \notin {"idle", "done"}
        /\ cancelled) => cancelled']_vars

\* C8: no frame index is rendered twice during a run, and every render asks
\* for labels and the colorbar area.
C8_RenderedOnce ==
    /\ \A i, j \in DOMAIN rendered :
         i # j => rendered[i].idx # rendered[j].idx
    /\ \A i \in DOMAIN rendered :
         rendered[i].draw_labels /\ rendered[i].include_colorbar_area

\* C9: each progress_updated is followed by frame_exported(n) and carries
\* floor(100 * n / N), at most 100, 100 only for the last frame, and the
\* placeholder time on the first frame.
C9_PercentIsFloor ==
    \A k \in DOMAIN events :
        events[k].sig = "progress" =>
            /\ k + 1 \in DOMAIN events
            /\ events[k + 1].sig = "frame"
            /\ events[k].a = (100 * events[k + 1].a) \div frame_count
            /\ events[k].a <= 100
            /\ events[k].a = 100 => events[k + 1].a = frame_count
            /\ events[k + 1].a = 1 => events[k].b = "Calculating..."

\* C7: during a run the preview path writes neither the renderer, its font
\* cache, the colormap cache nor the configuration, and none of them is
\* written by one thread while the other reads or writes it.
C7_OnlyFlagShared ==
    LET objects == {"renderer", "font_cache", "colormap_cache", "config"}
    IN /\ p_write \cap objects = {}
       /\ \A o \in objects :
            /\ ~(o \in p_write /\ o \in (w_read \cup w_write))
            /\ ~(o \in w_write /\ o \in (p_read \cup p_write))

\* C10: is_visible(obj, frame) is false exactly when a record of the object
\* has mode before and frame <= its threshold, or mode after and frame >= its
\* threshold; after hide_object_before(X, t) object X is hidden at the frames
\* up to t and visible after t (t = 10: hidden at 5 and 10, visible at 11),
\* and after restore_object(X) or restore_all it is visible at every frame.
C10_VisibilityRule ==
    /\ \A o \in ObjIds, f \in FrameNos :
         is_visible(o, f) <=>
           ~\E k \in DOMAIN hidden_records :
               /\ hidden_records[k].obj_id = o
               /\ \/ hidden_records[k].mode = "before"
                     /\ f <= hidden_records[k].frame
                  \/ hidden_records[k].mode = "after"
                     /\ f >= hidden_records[k].frame
    /\ last_op.op = "hide_before" =>
         \A f \in FrameNos : is_visible(last_op.obj, f) <=> f > last_op.frame
    /\ last_op.op = "hide_after" =>
         \A f \in FrameNos : is_visible(last_op.obj, f) <=> f < last_op.frame
    /\ last_op.op = "restore" =>
         \A f \in FrameNos : is_visible(last_op.obj, f)
    /\ last_op.op = "restore_all" =>
         \A o \in ObjIds, f \in FrameNos : is_visible(o, f)

\* C10 witness: object 1 was hidden before frame 10 while object 2 holds a
\* record of its own; frames 5 and 10 are hidden and frame 11 is visible.
C10_Witness ==
    /\ last_op = Op("hide_before", 1, 10)
    /\ Len(hidden_records) = 2
    /\ ~is_visible(1, 5) /\ ~is_visible(1, 10) /\ is_visible(1, 11)

\* C1: a call of set_from_external_data that returns failure leaves the
\* trajectories and velocities, is_calculated, last_fps and last_um_per_pixel
\* as they were before the call; nothing of the failed import is stored, the
\* objects validated before the failing one included.
C1_FailedImportCommitsNothing ==
    [][import_result' \in {"no_mask", "out_of_bounds", "background"} =>
          UNCHANGED <<trajectories, is_calculated, last_fps,
                      last_um_per_pixel>>]_vars

\* C11: after any sequence of hide_object_before, hide_object_after,
\* restore_object, restore_all and from_list calls the ObjectManager holds at
\* most one hidden record per object ID.
C11_OneRecordPerObject ==
    \A i, j \in DOMAIN hidden_records :
        hidden_records[i].obj_id = hidden_records[j].obj_id => i = j

\* C12: calculate_all_trajectories records a velocity for an object at frame
\* f only if the object has a centroid at frame f - 1 and at frame f: no
\* velocity spans a gap, be it a frame without the object or a frame whose
\* mask is missing.
C12_NoVelocityAcrossGap ==
    import_result = "calculated" =>
        \A o \in DOMAIN trajectories :
            \A k \in DOMAIN trajectories[o].velocities :
                LET f == trajectories[o].velocities[k][1]
                    frames == {trajectories[o].centroids[c][1] :
                                 c \in DOMAIN trajectories[o].centroids}
                IN f \in frames /\ (f - 1) \in frames

C15_IdsReassignedInOrder ==
    import_result = "ok" =>
        LET n == Cardinality(ext_ids)
            first(k) == trajectories[k].centroids[1][1]
        IN /\ get_new_object_ids = [k \in 1..n |-> k]
           /\ {get_original_id(k) : k \in 1..n} = ext_ids
           /\ \A k \in 1..n : get_original_id(k) = trajectories[k].original_id
           /\ \A k \in 1..n :
                \A c \in DOMAIN trajectories[k].centroids :
                    first(k) <= trajectories[k].centroids[c][1]
           /\ \A k \in 2..n :
                \/ first(k - 1) < first(k)
                \/ /\ first(k - 1) = first(k)
                   /\ get_original_id(k - 1) < get_original_id(k)
           /\ get_original_id(n + 1) = NoId

\* C15 witness: original object 2 appears at frame 0 and original object 1
\* at frame 1, so object 2 became new ID 1 and object 1 new ID 2.
C15_Witness ==
    /\ import_result = "ok"
    /\ ext_ids = {1, 2}
    /\ get_original_id(1) = 2
    /\ get_original_id(2) = 1

C17_RefusedRescaleChangesNothing ==
    [][(/\ import_result' \in {"rescaled", "rescale_skipped", "rescale_failed"}
        /\ (~is_calculated \/ last_fps <= 0 \/ last_um_per_pixel <= 0)) =>
         /\ import_result' = "rescale_failed"
         /\ UNCHANGED <<trajectories, is_calculated, last_fps,
                        last_um_per_pixel, masks>>]_vars

\* A rescale with positive parameters was refused for trajectories that are
\* calculated, with a velocity that is not zero, at a stored fps of 0.
C17_Witness ==
    /\ import_result = "rescale_failed"
    /\ is_calculated
    /\ last_fps = 0
    /\ last_um_per_pixel > 0
    /\ requested[1] > 0
    /\ requested[2] > 0
    /\ \E o \in DOMAIN trajectories :
         \E k \in DOMAIN trajectories[o].velocities :
            trajectories[o].velocities[k][2].num > 0

\* C18: when the overlay item holds the same bar size, title, title position,
\* title gap and tick length as the renderer's configuration, the box
\* _calculate_colorbar_bounds returns is as wide and as high as the overlay
\* item's bounding rectangle.
C18_SameBoundingBox ==
    (/\ colorbar_bounds # << >>
     /\ \A field \in {"bar_width", "bar_height", "title", "title_position",
                      "title_gap", "tick_length"} :
           colorbar_item[field] = colorbar[field]) =>
       /\ colorbar_bounds[3] - colorbar_bounds[1] = colorbar_item.total_width
       /\ colorbar_bounds[4] - colorbar_bounds[2] = colorbar_item.total_height

\* C19: a colorbar whose box lies inside the raster (right <= width and
\* bottom <= height) leaves the size of the raster as it was.
C19_InsideLeavesSize ==
    (/\ extended # NoRaster
     /\ colorbar_bounds # << >>
     /\ colorbar_bounds[3] <= image.w
     /\ colorbar_bounds[4] <= image.h) =>
       /\ extended.w = image.w
       /\ extended.h = image.h

\* C20: the raster _extend_for_colorbar returns is at least as wide and as
\* high as its input, holds the input's pixels at their coordinates and white
\* everywhere else, and, when the colorbar's box passes the right edge by
\* d > 0, is wider than the input by at least d plus the padding.
C20_GrowsRightAndDownInWhite ==
    extended # NoRaster =>
       /\ extended.w >= image.w
       /\ extended.h >= image.h
       /\ DOMAIN extended.px =
             {<<r, c>> : r \in 0..(extended.h - 1), c \in 0..(extended.w - 1)}
       /\ \A p \in DOMAIN extended.px :
             extended.px[p] = IF p \in DOMAIN image.px THEN image.px[p]
                              ELSE White
       /\ (colorbar_bounds # << >> /\ colorbar_bounds[3] > image.w) =>
             extended.w - image.w >= colorbar_bounds[3] - image.w + PadRight

\* A raster was extended to the right and to the bottom for a colorbar whose
\* box passes the right edge.
C20_Witness ==
    /\ extended # NoRaster
    /\ colorbar_bounds # << >>
    /\ colorbar_bounds[3] > image.w
    /\ extended.w > image.w
    /\ extended.h > image.h

\* C30: after a rescale_velocities call that returned True, the stored fps
\* and the stored scale are the ones the call was given.
C30_StoredParametersAreRequested ==
    [][import_result' \in {"rescaled", "rescale_skipped"} =>
         /\ last_fps' = requested'[1]
         /\ last_um_per_pixel' = requested'[2]]_vars

\* C29: after a successful import, every point stored under ID k lies on a
\* mask pixel labelled k.
C29_TrajectoryIdIsMaskLabel ==
    import_result = "ok" =>
       \A k \in DOMAIN trajectories :
          \A i \in DOMAIN trajectories[k].centroids :
             LET p == trajectories[k].centroids[i]
             IN get_mask(p[1])[PyRound(p[2]) + 1] = k

\* C25: once export_finished is emitted by a run that created a video writer,
\* the writer is closed and the image worker pool is shut down.
C25_ReleasedBeforeFinished ==
    (Finished # {} /\ video_writer # "none") =>
       /\ video_writer = "closed"
       /\ executor = "shutdown"

\* C21: the mask overlay stage changes only pixels of objects that are
\* visible at the rendered frame; the pixels of a hidden object and of the
\* background keep the value of the stage's input raster.
C21_OnlyVisibleObjectsChange ==
    [][(frame_out' # frame_out /\ ~frame_out'.frame.placeholder) =>
         LET f == frame_out'.frame.frame_index
             mask == get_mask(f)
         IN \A x \in DOMAIN frame_out'.frame.masked :
               frame_out'.frame.masked[x] # get_frame(f)[x] =>
                  /\ mask[x] > 0
                  /\ is_visible(mask[x], f)]_vars

\* C24: for each object with a trajectory, the trajectory stage draws the
\* polyline through exactly the trajectory points whose frame lies in the
\* window of the configured mode and at which the object is visible, and
\* nothing when fewer than two points are kept.
C24_DrawsKeptPoints ==
    [][(frame_out' # frame_out /\ ~frame_out'.frame.placeholder
          /\ renderer_config'.trajectory.enabled) =>
         \A o \in DOMAIN trajectories' :
            LET current == frame_out'.frame.frame_index
                d == DelayFrames(renderer_config')
                mode == renderer_config'.trajectory.mode
                InWindow(f) ==
                   CASE mode = "full" -> TRUE
                     [] mode = "start_to_current" -> f <= current
                     [] mode = "delay_before" ->
                          Max(0, current - d) <= f /\ f <= current
                     [] mode = "delay_after" ->
                          current <= f /\ f <= current + d
                points == trajectories'[o].centroids
                kept == SelectSeq(points,
                           LAMBDA p : InWindow(p[1]) /\ is_visible(o, p[1]))
                drawn == IF o \in DOMAIN frame_out'.frame.lines
                         THEN frame_out'.frame.lines[o] ELSE << >>
            IN IF Len(kept) < 2 THEN drawn = << >>
               ELSE drawn = [i \in DOMAIN kept |->
                               <<kept[i][1], kept[i][2] \div 2>>]]_vars

\* C23: render_frame returns the placeholder, no stage run, exactly when the
\* original frame is missing; otherwise the stages it runs are in the order
\* mask, contour, ellipse axes, trajectory, centroid, canvas extension,
\* labels, and a stage runs exactly when its flag is enabled, the mask loads
\* (mask, contour, ellipse axes, centroid), include_colorbar_area is set
\* (extension) and draw_labels is set (labels).
C23_StagesInOrder ==
    [][frame_out' # frame_out =>
         LET out == frame_out'.frame
             cfg == renderer_config'
             f == out.frame_index
             has_mask == get_mask(f) # NoMask
             ran == {out.stages[i] : i \in DOMAIN out.stages}
             velocity == cfg.colorbar.enabled
                            /\ cfg.trajectory.color_mode = "velocity"
             Rank(name) ==
                CASE name = "mask" -> 1 [] name = "contour" -> 2
                  [] name = "ellipse_axes" -> 3 [] name = "trajectory" -> 4
                  [] name = "centroid" -> 5 [] name = "extend" -> 6
                  [] name = "time_label" -> 7 [] name = "scale_bar" -> 8
                  [] name = "speed_label" -> 9 [] name = "colorbar" -> 10
         IN /\ out.placeholder <=> get_frame(f) = NoFrame
            /\ out.placeholder => out.stages = << >>
            /\ \A i, j \in DOMAIN out.stages :
                  i < j => Rank(out.stages[i]) < Rank(out.stages[j])
            /\ ~out.placeholder =>
                 /\ "mask" \in ran <=> (has_mask /\ cfg.mask.enabled)
                 /\ "contour" \in ran <=> (has_mask /\ cfg.contour.enabled)
                 /\ "ellipse_axes" \in ran <=>
                       (has_mask /\ (cfg.ellipse_axes.show_major_axis
                                     \/ cfg.ellipse_axes.show_minor_axis))
                 /\ "trajectory" \in ran <=> cfg.trajectory.enabled
                 /\ "centroid" \in ran <=> (has_mask /\ cfg.centroid.enabled)
                 /\ "extend" \in ran <=>
                       (out.include_colorbar_area /\ velocity)
                 /\ "time_label" \in ran <=>
                       (out.draw_labels /\ cfg.time_label.enabled)
                 /\ "scale_bar" \in ran <=>
                       (out.draw_labels /\ cfg.scale_bar.enabled)
                 /\ "speed_label" \in ran <=>
                       (out.draw_labels /\ cfg.speed_label.enabled)
                 /\ "colorbar" \in ran <=> (out.draw_labels /\ velocity)]_vars

\* A frame was rendered with every stage, and so with the trajectory stage
\* before the centroid stage.
C23_Witness ==
    /\ frame_out.mode = "call"
    /\ Len(frame_out.frame.stages) = 10

C26_SameColorbarPredicate ==
    [][(frame_out' # frame_out /\ frame_out'.mode = "edit") =>
         LET final == render_frame(renderer_config', current_frame', TRUE,
                                   TRUE)
         IN frame_out'.show_colorbar <=>
               "colorbar" \in {final.stages[i] : i \in DOMAIN final.stages}]_vars

\* C28: the position the renderer uses for each label is the position stored
\* in the controller's configuration, the one that is saved and exported.
C28_RendererUsesStoredPosition ==
    /\ get_label_position("time") = config.time_label.position
    /\ get_label_position("scale_bar") = config.scale_bar.position
    /\ get_label_position("speed") = config.speed_label.position
    /\ get_label_position("colorbar") = config.colorbar.position

\* C27: a caption centred over a bar starts at the same x in final mode as in
\* edit mode, for the scale-bar caption and for the colorbar title on top.
C27_SameCaptionStart ==
    \A item \in {"scale_bar", "colorbar"} :
       (caption_x.edit[item] # {} /\ caption_x.final[item] # {}) =>
          caption_x.edit[item] = caption_x.final[item]

====
